---- MODULE Spec2Model ----
(***************************************************************************)
(* A model of the v-tools client (wgqiyu/v-tools): the power-state         *)
(* transition engine of vtools/vm.py with its two tenacity retry loops,    *)
(* the CPU / memory edits, the unit-number allocation of vtools/device.py  *)
(* and of CreateVMSpec, and snapshot creation.  The ESXi host is the       *)
(* environment: it answers reads, accepts or rejects calls, and completes  *)
(* tasks.                                                                  *)
(***************************************************************************)
EXTENDS Integers, Sequences, FiniteSets, TLC

VARIABLES
    \* ---- power transitions (vtools/vm.py, class VM) ----
    power_state,        \* vim_obj.summary.runtime.powerState as the host reports it
    host_pending,       \* a power state the host has accepted but not yet reported
    pc,                 \* position of the running power call
    expected_state,     \* the target state of the running power call
    attempt_number,     \* tenacity attempt number of the invocation phase
    submitted,          \* PowerOn/PowerOff/Suspend calls made by the running call
    raised,             \* attempts of the invocation phase that raised
    poll_reads,         \* reads of power_state made by the confirmation poll
    current_power_state,\* the last value read by the confirmation poll
    submitted_at_poll,  \* history: value of submitted when the poll began
    started_at_target,  \* history: the VM reported the target when the call began
    state_changed,      \* history: the reported state changed during the call
    \* ---- CPU / memory edits (CpuManager, MemoryManager, VMManager.edit) ----
    hardware,           \* vim_obj.config.hardware: numCPU, numCoresPerSocket, memoryMB
    last_edit,          \* history: the last edit call, what it saw and what it did
    \* ---- device allocation (vtools/device.py Controller, vm.py DiskManager,
    \*      vm.py CreateVMSpec) ----
    working_on,         \* what the client script holds: a VM on the host, or a CreateVMSpec
    max_devices,        \* device_option.devices.max of the SCSI controller type
    hw_device,          \* vim_obj.config.hardware.device of the VM, in key order
    devices,            \* CreateVMSpec.devices (the device of each spec, in order)
    last_used_key,      \* CreateVMSpec._last_used_key
    last_used_scsi_bus, \* CreateVMSpec._last_used_scsi_bus
    last_add,           \* history: the last disk call, what it saw and what it did
    last_device_call,   \* history: the last controller call or VM.add_disk of vtools.py
    \* ---- snapshots (vtools/snapshot.py, vm.py SnapshotManager, vtools.py VM) ----
    snapshot,           \* per VM: vim_obj.snapshot (rootSnapshotList, currentSnapshot)
    next_snapshot,      \* the identifier the host gives the next snapshot
    last_snapshot_call, \* history: the last snapshot call, what it saw and what it did
    last_tree_call,     \* history: the last revert / delete, what it saw and what it did
    \* ---- OVF import (vsphere.py create_import_spec, create_http_nfc_lease,
    \*      deploy_vm_with_pull_mode; esxi.py VMManager.import_ovf; vm.py
    \*      OvfImportSpec.create_vm) ----
    import_pc,          \* position of the running import
    import_engine,      \* which of the two import functions is running
    calls,              \* history: the remote calls of the running import, in order
    lease_state,        \* http_nfc_lease.state as last read by the poll
    lease_reads,        \* reads of http_nfc_lease.state made by the poll
    file_items,         \* create_result.fileItem
    source_files,       \* the argument of PullFromUrls
    pull_task,          \* the outcome of the PullFromUrls task
    import_outcome,     \* how the import ended
    \* ---- disk labels (vtools.py VM.remove_disk) ----
    disk_label,         \* per disk key: the ordinal of deviceInfo.label "Hard disk <n>"
    \* ---- VM creation (esxi.py VMManager.create, vm.py CreateVMSpec.create_vm) ----
    create_pc,          \* position of the running create call
    create_engine,      \* which of the two create functions is running
    create_name,        \* the name the running create call asks for
    task,               \* task.info.state of the CreateVm task
    vm_list,            \* esxi.vim_obj.vm: the names of the VMs of the host
    last_create,        \* history: what the last create call read and returned
    \* ---- command exit (vtools/exception.py, vtools/cli/exception.py,
    \*      vtools/cli/config.py) ----
    config,             \* the CONNECTION section of ~/.vtools_config
    exit_log,           \* history: how each command run so far ended
    \* ---- queries (vtools/query.py QueryMixin) ----
    collection,         \* what _list_all() returns
    last_query,         \* history: the last list / get, what it saw and returned
    \* ---- DiskManager.add of several clients, step by step (vm.py 262-293) ----
    add_pc,             \* per client: position in DiskManager.add
    add_calls,          \* per client: calls of DiskManager.add made so far
    add_controller,     \* per client: the Controller object passed to add
    existing_disks,     \* per client: the keys of self.list() at the start
    new_disk_spec,      \* per client: controllerKey and unitNumber of the change-set
    add_result,         \* per client, history: what the call committed and returned
    interfered,         \* per client, history: the devices changed under the call
    \* ---- VM deletion (esxi.py VMManager.delete, vtools.py ESXi.delete_vm) ----
    delete_pc,          \* position of the running delete
    delete_engine,      \* which of the two delete functions is running
    delete_read,        \* runtime.powerState as the delete read it
    delete_calls,       \* history: the calls of the running delete, in order
    power_off_task,     \* the outcome of the delete's power-off task
    vm_registered,      \* the VM is in the inventory of the host
    deletes,            \* delete calls made so far
    \* ---- power commands of cli.py (power_on, power_off, suspend) ----
    cli_log,            \* history: what each command read, submitted and printed
    \* ---- CreateVMSpec as objects (vm.py vim_config_spec, create_vm) ----
    heap,               \* the device specs that exist, by reference
    device_refs,        \* CreateVMSpec.devices: references into the heap
    create_vm_log       \* history: what each create_vm saw, submitted and left

powerVars == <<power_state, host_pending, pc, expected_state, attempt_number,
               submitted, raised, poll_reads, current_power_state, submitted_at_poll,
               started_at_target, state_changed>>

powerCallVars == <<host_pending, pc, expected_state, attempt_number, submitted,
                   raised, poll_reads, current_power_state, submitted_at_poll,
                   started_at_target, state_changed>>

editVars == <<hardware, last_edit>>

allocVars == <<working_on, max_devices, hw_device, devices, last_used_key,
               last_used_scsi_bus, last_add, last_device_call>>

snapshotVars == <<snapshot, next_snapshot, last_snapshot_call, last_tree_call>>

importVars == <<import_pc, import_engine, calls, lease_state, lease_reads,
                file_items, source_files, pull_task, import_outcome>>

labelVars == <<disk_label>>

createVars == <<create_pc, create_engine, create_name, task, vm_list, last_create>>

exitVars == <<config, exit_log>>

queryVars == <<collection, last_query>>

raceVars == <<add_pc, add_calls, add_controller, existing_disks, new_disk_spec,
             add_result, interfered>>

deleteVars == <<delete_pc, delete_engine, delete_read, delete_calls,
               power_off_task, vm_registered, deletes>>

cliVars == <<cli_log>>

copyVars == <<heap, device_refs, create_vm_log>>

\* the groups of the later sections
laterVars == <<raceVars, deleteVars, cliVars, copyVars>>

\* what the steps of DiskManager.add leave alone among them
nonRace == <<deleteVars, cliVars, copyVars>>

\* what a delete leaves alone among them
nonDelete == <<raceVars, cliVars, copyVars>>

\* what a power command of cli.py leaves alone among them
nonCli == <<raceVars, deleteVars, copyVars>>

\* what the calls on a CreateVMSpec object leave alone among them
nonCopy == <<raceVars, deleteVars, cliVars>>

otherVars == <<labelVars, createVars, exitVars, queryVars, laterVars>>

vars == <<powerVars, editVars, allocVars, snapshotVars, importVars, otherVars>>

\* what the power transitions leave alone
nonPower == <<editVars, allocVars, snapshotVars, importVars, otherVars>>

\* vim.VirtualMachine.PowerState
PowerState == {"poweredOn", "poweredOff", "suspended"}

NoState == "none"

\* stop_after_attempt(12) of _invoke_power_on / _invoke_power_off / _invoke_suspend
InvokeMaxAttempts == 12

\* stop_after_attempt(60) of _wait_until_power_state_is
PollMaxAttempts == 60

\* a stop that lets one more attempt through
StopOneAttemptLate(attempt, max) == attempt >= max + 1

\* tenacity stop_after_attempt(max): give up once attempt_number >= max
StopAfterAttemptOffByOne(attempt, max) == attempt > max

stop_after_attempt(attempt, max) == attempt >= max

\* the early return of _invoke_power_*: the VM already reports the target
AlreadyNever(current, wanted) == FALSE

already_in_state(current, wanted) == current = wanted

\* the test of _wait_until_power_state_is: a mismatch raises TryAgain
MismatchOnlyOff(current, wanted) == current = "poweredOff" /\ current # wanted

state_mismatch(current, wanted) == current # wanted

PowerInit ==
    /\ power_state = "poweredOff"
    /\ host_pending = NoState
    /\ pc = "idle"
    /\ expected_state = NoState
    /\ attempt_number = 0
    /\ submitted = 0
    /\ raised = 0
    /\ poll_reads = 0
    /\ current_power_state = NoState
    /\ submitted_at_poll = 0
    /\ started_at_target = FALSE
    /\ state_changed = FALSE

\* VM.power_on / VM.power_off / VM.suspend is called with target t
power_call(t) ==
    /\ pc \in {"idle", "done", "failed_invoke", "failed_wait"}
    /\ pc' = "invoke"
    /\ expected_state' = t
    /\ attempt_number' = 0
    /\ submitted' = 0
    /\ raised' = 0
    /\ poll_reads' = 0
    /\ current_power_state' = NoState
    /\ submitted_at_poll' = 0
    /\ started_at_target' = (power_state = t)
    /\ state_changed' = FALSE
    /\ UNCHANGED <<power_state, host_pending>>
    /\ UNCHANGED nonPower

\* an attempt that submits the power call although the VM reports the target
InvokeNoopSubmits ==
    /\ pc = "invoke"
    /\ already_in_state(power_state, expected_state)
    /\ attempt_number' = attempt_number + 1
    /\ submitted' = submitted + 1
    /\ pc' = "wait"
    /\ submitted_at_poll' = submitted + 1
    /\ UNCHANGED <<power_state, host_pending, expected_state,
                   raised, poll_reads, current_power_state, started_at_target,
                   state_changed>>
    /\ UNCHANGED nonPower

\* one attempt of _invoke_power_*: the VM already reports the target, return
invoke_noop ==
    /\ pc = "invoke"
    /\ already_in_state(power_state, expected_state)
    /\ attempt_number' = attempt_number + 1
    /\ pc' = "wait"
    /\ submitted_at_poll' = submitted
    /\ UNCHANGED <<power_state, host_pending, expected_state, submitted,
                   raised, poll_reads, current_power_state, started_at_target,
                   state_changed>>
    /\ UNCHANGED nonPower

\* one attempt of _invoke_power_*: the call is submitted and the attempt
\* raises (the submission raises, or WaitForTask raises on a failed task)
invoke_raises ==
    /\ pc = "invoke"
    /\ ~already_in_state(power_state, expected_state)
    /\ attempt_number' = attempt_number + 1
    /\ submitted' = submitted + 1
    /\ raised' = raised + 1
    /\ pc' = IF stop_after_attempt(attempt_number + 1, InvokeMaxAttempts)
             THEN "failed_invoke" ELSE "invoke"
    /\ UNCHANGED <<power_state, host_pending, expected_state, poll_reads,
                   current_power_state, submitted_at_poll, started_at_target,
                   state_changed>>
    /\ UNCHANGED nonPower

\* one attempt of _invoke_power_*: the call is submitted and its task succeeds;
\* the host reports the new state at once (lag = FALSE) or later (lag = TRUE)
invoke_succeeds(lag) ==
    /\ pc = "invoke"
    /\ ~already_in_state(power_state, expected_state)
    /\ attempt_number' = attempt_number + 1
    /\ submitted' = submitted + 1
    /\ pc' = "wait"
    /\ submitted_at_poll' = submitted + 1
    /\ IF lag
       THEN /\ host_pending' = expected_state
            /\ UNCHANGED <<power_state, state_changed>>
       ELSE /\ power_state' = expected_state
            /\ host_pending' = NoState
            /\ state_changed' = TRUE
    /\ UNCHANGED <<expected_state, raised, poll_reads, current_power_state,
                   started_at_target>>
    /\ UNCHANGED nonPower

\* a poll that answers a mismatch by submitting the power call again
PollAttemptResubmits ==
    /\ pc = "wait"
    /\ poll_reads' = poll_reads + 1
    /\ current_power_state' = power_state
    /\ submitted' = IF state_mismatch(power_state, expected_state)
                    THEN submitted + 1 ELSE submitted
    /\ pc' = IF state_mismatch(power_state, expected_state)
             THEN IF stop_after_attempt(poll_reads + 1, PollMaxAttempts)
                  THEN "failed_wait" ELSE "wait"
             ELSE "done"
    /\ UNCHANGED <<power_state, host_pending, expected_state, attempt_number,
                   raised, submitted_at_poll, started_at_target,
                   state_changed>>
    /\ UNCHANGED nonPower

\* one attempt of _wait_until_power_state_is: read, compare, TryAgain or return
poll_attempt ==
    /\ pc = "wait"
    /\ poll_reads' = poll_reads + 1
    /\ current_power_state' = power_state
    /\ pc' = IF state_mismatch(power_state, expected_state)
             THEN IF stop_after_attempt(poll_reads + 1, PollMaxAttempts)
                  THEN "failed_wait" ELSE "wait"
             ELSE "done"
    /\ UNCHANGED <<power_state, host_pending, expected_state, attempt_number,
                   submitted, raised, submitted_at_poll, started_at_target,
                   state_changed>>
    /\ UNCHANGED nonPower

\* the host starts reporting a power state it had accepted
host_propagate ==
    /\ host_pending # NoState
    /\ power_state' = host_pending
    /\ host_pending' = NoState
    /\ state_changed' = (state_changed \/ host_pending # power_state)
    /\ UNCHANGED <<pc, expected_state, attempt_number, submitted, raised,
                   poll_reads, current_power_state, submitted_at_poll,
                   started_at_target>>
    /\ UNCHANGED nonPower

\* another client of the host changes the VM's power state
other_client_power(s) ==
    /\ s # power_state
    /\ power_state' = s
    /\ state_changed' = TRUE
    /\ UNCHANGED <<host_pending, pc, expected_state, attempt_number, submitted,
                   raised, poll_reads, current_power_state, submitted_at_poll,
                   started_at_target>>
    /\ UNCHANGED nonPower

PowerNext ==
    \/ \E t \in PowerState : power_call(t)
    \/ invoke_noop
    \/ invoke_raises
    \/ \E lag \in BOOLEAN : invoke_succeeds(lag)
    \/ poll_attempt
    \/ host_propagate
    \/ \E s \in PowerState : other_client_power(s)

\* ---------------------------------------------------------------------------
\* CPU / memory edits (vtools/vm.py CpuManager, MemoryManager;
\* vtools/esxi.py VMManager.edit)
\* ---------------------------------------------------------------------------

\* largest CPU count / cores-per-socket value a caller passes
MaxCpu == 2

CpuValues == 1..MaxCpu

MemoryValues == {128, 256}

\* the guard of the setters: not poweredOff raises InvalidStateError
not_powered_off(state) == state # "poweredOff"

\* CreateVMSpec defaults: cpu_count = 1, cpu_cores_per_socket = 1, 128 MB
EditInit ==
    /\ hardware = [numCPU |-> 1, numCoresPerSocket |-> 1, memoryMB |-> 128]
    /\ last_edit = [op |-> "none", power |-> "poweredOff", outcome |-> "none",
                    reconfigures |-> 0, before |-> hardware]

\* an edit that submits its Reconfigure a second time when the task failed
ReconfigureEditResubmits(op, refusal, new_hardware, task_ok) ==
    /\ IF not_powered_off(power_state)
       THEN /\ last_edit' = [op |-> op, power |-> power_state,
                             outcome |-> refusal, reconfigures |-> 0,
                             before |-> hardware]
            /\ UNCHANGED hardware
       ELSE /\ last_edit' = [op |-> op, power |-> power_state,
                             outcome |-> "ok",
                             reconfigures |-> IF task_ok THEN 1 ELSE 2,
                             before |-> hardware]
            /\ hardware' = new_hardware
    /\ UNCHANGED <<powerVars, allocVars, snapshotVars, importVars, otherVars>>

\* the common shape of the three setters and of VMManager.edit: guard, then
\* one Reconfigure(config_spec) whose task succeeds (task_ok) or fails
reconfigure_edit(op, refusal, new_hardware, task_ok) ==
    /\ IF not_powered_off(power_state)
       THEN /\ last_edit' = [op |-> op, power |-> power_state,
                             outcome |-> refusal, reconfigures |-> 0,
                             before |-> hardware]
            /\ UNCHANGED hardware
       ELSE /\ last_edit' = [op |-> op, power |-> power_state,
                             outcome |-> IF task_ok THEN "ok" ELSE "TaskError",
                             reconfigures |-> 1, before |-> hardware]
            /\ hardware' = IF task_ok THEN new_hardware ELSE hardware
    /\ UNCHANGED <<powerVars, allocVars, snapshotVars, importVars, otherVars>>

\* CpuManager.number = value
cpu_number_set(value, task_ok) ==
    reconfigure_edit("number", "InvalidStateError",
                     [hardware EXCEPT !.numCPU = value], task_ok)

\* CpuManager.cores_per_socket = value
cores_per_socket_set(value, task_ok) ==
    reconfigure_edit("cores_per_socket", "InvalidStateError",
                     [hardware EXCEPT !.numCoresPerSocket = value], task_ok)

\* MemoryManager.size_in_mb = value
size_in_mb_set(value, task_ok) ==
    reconfigure_edit("size_in_mb", "InvalidStateError",
                     [hardware EXCEPT !.memoryMB = value], task_ok)

\* VMManager.edit(vm, ..., memory_size, ..., num_cpus): prints and sys.exit()
\* when the VM is not poweredOff
VMManager_edit(memory_size, num_cpus, task_ok) ==
    reconfigure_edit("edit", "SystemExit",
                     [hardware EXCEPT !.memoryMB = memory_size,
                                      !.numCPU = num_cpus], task_ok)

\* the VM's power state changes between two commands
power_state_changes(s) ==
    /\ s # power_state
    /\ power_state' = s
    /\ UNCHANGED <<powerCallVars, editVars, allocVars, snapshotVars, importVars, otherVars>>

EditNext ==
    \/ \E v \in CpuValues, ok \in BOOLEAN : cpu_number_set(v, ok)
    \/ \E v \in CpuValues, ok \in BOOLEAN : cores_per_socket_set(v, ok)
    \/ \E v \in MemoryValues, ok \in BOOLEAN : size_in_mb_set(v, ok)
    \/ \E m \in MemoryValues, n \in CpuValues, ok \in BOOLEAN :
          VMManager_edit(m, n, ok)
    \/ \E s \in PowerState : power_state_changes(s)

\* ---------------------------------------------------------------------------
\* Device allocation (vtools/device.py Controller.next_free_unit,
\* vtools/vm.py DiskManager and CreateVMSpec)
\* ---------------------------------------------------------------------------

\* Python's None: a value that is no key and no unit number
None == -999

\* IndexError raised by used_units[last_index] on an empty list
IndexError == -998

\* TypeError raised by list.sort() on a list that mixes None and int
TypeError == -997

\* scsiCtlrUnitNumber: the controller's own SCSI target number
ScsiCtlrUnitNumber == 7

\* the larger of the two maximum device counts a controller type may have
MaxDevices == 9

\* the smaller one
SmallMaxDevices == 4

\* most devices a script puts into one CreateVMSpec
MaxBatchDevices == 11

\* most SCSI controllers a script puts into one CreateVMSpec
MaxBatchControllers == 2

\* find_device_option_by_type(config_option, type).devices.max and
\* .scsiCtlrUnitNumber: the host's capability metadata
find_device_option_by_type ==
    [devices_max |-> max_devices, scsiCtlrUnitNumber |-> ScsiCtlrUnitNumber]

Device(key, type, controllerKey, unitNumber, scsiCtlrUnitNumber, device) ==
    [key |-> key, type |-> type, controllerKey |-> controllerKey,
     unitNumber |-> unitNumber, scsiCtlrUnitNumber |-> scsiCtlrUnitNumber,
     device |-> device]

\* a SCSI controller: a device that also carries busNumber
WithBusNumber(controller, busNumber) == [busNumber |-> busNumber] @@ controller

RECURSIVE insert_sorted(_, _)
insert_sorted(x, s) ==
    IF s = <<>> THEN <<x>>
    ELSE IF x <= Head(s) THEN <<x>> \o s
    ELSE <<Head(s)>> \o insert_sorted(x, Tail(s))

RECURSIVE sorted_list(_)
sorted_list(s) ==
    IF s = <<>> THEN <<>> ELSE insert_sorted(Head(s), sorted_list(Tail(s)))

\* used_units.sort()
list_sort(used_units) ==
    IF Len(used_units) >= 2 /\ \E i \in 1..Len(used_units) : used_units[i] = None
    THEN <<TypeError>>
    ELSE sorted_list(used_units)

\* index = 0; while used_units[index] == index: index = index + 1
RECURSIVE first_gap(_, _)
first_gap(used_units, index) ==
    IF index >= Len(used_units) THEN IndexError
    ELSE IF used_units[index + 1] = index THEN first_gap(used_units, index + 1)
    ELSE index

\* an allocation that never looks for a gap below the last used unit
NextFreeUnitNoGapSearch(used_units, maximum) ==
    IF Len(used_units) >= maximum THEN None ELSE Len(used_units)

\* an allocation that forgets used_units.sort()
NextFreeUnitUnsorted(used_units, maximum) ==
    IF Len(used_units) >= maximum THEN None
    ELSE IF used_units = <<>> THEN IndexError
    ELSE LET last_index == Len(used_units) - 1
         IN  IF used_units[last_index + 1] = last_index THEN last_index + 1
             ELSE first_gap(used_units, 0)

\* the body shared by Controller.next_free_unit and
\* CreateVMSpec._get_next_free_unit, on the used units they collected
next_free_unit(used_units, maximum) ==
    IF Len(used_units) >= maximum THEN None
    ELSE IF used_units = <<>> THEN IndexError
    ELSE LET sorted == list_sort(used_units)
             last_index == Len(sorted) - 1
         IN  IF sorted = <<TypeError>> THEN TypeError
             ELSE IF sorted[last_index + 1] = last_index THEN last_index + 1
             ELSE first_gap(sorted, 0)

RECURSIVE attached_units(_, _)
attached_units(controller, device_list) ==
    IF device_list = <<>> THEN <<>>
    ELSE LET d == Head(device_list)
             rest == attached_units(controller, Tail(device_list))
         IN  IF d.key \in controller.device THEN <<d.unitNumber>> \o rest
             ELSE rest

\* Controller._get_used_units
Controller_get_used_units(controller, device_list) ==
    (IF controller.type = "scsi" THEN <<controller.scsiCtlrUnitNumber>>
     ELSE <<>>) \o attached_units(controller, device_list)

\* CreateVMSpec._get_used_units
RECURSIVE CreateVMSpec_get_used_units(_, _)
CreateVMSpec_get_used_units(controller, device_list) ==
    IF device_list = <<>> THEN <<>>
    ELSE LET d == Head(device_list)
             rest == CreateVMSpec_get_used_units(controller, Tail(device_list))
         IN  IF d.type = "scsi" /\ d.key = controller.key
             THEN <<IF d.scsiCtlrUnitNumber # None THEN d.scsiCtlrUnitNumber
                    ELSE find_device_option_by_type.scsiCtlrUnitNumber>> \o rest
             ELSE IF d.controllerKey # controller.key THEN rest
             ELSE <<d.unitNumber>> \o rest

\* the elements of a list, as a set
Elements(s) == {s[i] : i \in 1..Len(s)}

Controllers(device_list) == {d \in Elements(device_list) : d.type = "scsi"}

\* the disks of a device list that sit on the controller with this key
DisksOn(device_list, key) ==
    {d \in Elements(device_list) : d.type = "disk" /\ d.controllerKey = key}

\* the host keeps config.hardware.device in key order
RECURSIVE host_insert(_, _)
host_insert(d, device_list) ==
    IF device_list = <<>> THEN <<d>>
    ELSE IF d.key <= Head(device_list).key THEN <<d>> \o device_list
    ELSE <<Head(device_list)>> \o host_insert(d, Tail(device_list))

\* the host's key for a disk committed at a unit of SCSI bus 0
host_disk_key(unit) == 2000 + unit

\* the unit the host gives a disk whose change-set names none
host_free_unit(controller, device_list) ==
    LET used == Elements(Controller_get_used_units(controller, device_list))
    IN  CHOOSE u \in 0..(max_devices + 1) :
            /\ u \notin used
            /\ \A v \in 0..(max_devices + 1) : v \notin used => u <= v

\* the host accepts a disk at a unit that is free, on a controller that
\* holds fewer than devices.max devices
host_accepts_disk(controller, unit, device_list) ==
    /\ Len(attached_units(controller, device_list)) < max_devices
    /\ unit \notin Elements(Controller_get_used_units(controller, device_list))

\* a VM as the host reports it: SCSI controller 0 (key 1000, its own target
\* number 7, on the PCI controller 100) and a CD-ROM at unit 0 of IDE
\* controller 200; an empty CreateVMSpec
AllocInit ==
    /\ working_on \in {"vm", "create_vm_spec"}
    /\ max_devices \in {SmallMaxDevices, MaxDevices}
    /\ hw_device = << Device(200, "ide", 100, 0, None, {3000}),
                      WithBusNumber(Device(1000, "scsi", 100, 3,
                                           ScsiCtlrUnitNumber, {}), 0),
                      Device(3000, "cdrom", 200, 0, None, {}) >>
    /\ devices = <<>>
    /\ last_used_key = 0
    /\ last_used_scsi_bus = 0
    /\ last_add = [engine |-> "none", controller_key |-> None,
                   used_before |-> {}, len_before |-> 0,
                   unit |-> None, reconfigures |-> 0, outcome |-> "none",
                   added |-> FALSE]
    /\ last_device_call = [op |-> "none", bus |-> None, buses_before |-> {},
                           had_scsi |-> FALSE, reconfigures |-> 0,
                           outcome |-> "none", before |-> <<>>]

\* what a disk add saw and did
AddRecord(engine, controller_key, device_list, used_units, unit, reconfigures, outcome, added) ==
    [engine |-> engine, controller_key |-> controller_key,
     used_before |-> {d.unitNumber : d \in DisksOn(device_list, controller_key)},
     len_before |-> Len(used_units), unit |-> unit,
     reconfigures |-> reconfigures, outcome |-> outcome, added |-> added]

\* DiskManager.add(size_in_mb, backing, controller): the unit comes from
\* controller.next_free_unit, one Reconfigure is submitted, and its task
\* succeeds (task_ok, if the host accepts the change-set) or fails
DiskManager_add(controller, task_ok) ==
    LET used_units == Controller_get_used_units(controller, hw_device)
        unitNumber == next_free_unit(used_units,
                                     find_device_option_by_type.devices_max)
        host_unit  == IF unitNumber = None
                      THEN host_free_unit(controller, hw_device)
                      ELSE unitNumber
        raises     == unitNumber \in {IndexError, TypeError}
        accepted   == /\ ~raises
                      /\ task_ok
                      /\ host_accepts_disk(controller, host_unit, hw_device)
        new_disk   == Device(host_disk_key(host_unit), "disk", controller.key,
                             host_unit, None, {})
        with_disk  == [i \in 1..Len(hw_device) |->
                         IF hw_device[i].key = controller.key
                         THEN [hw_device[i] EXCEPT
                                 !.device = @ \cup {new_disk.key}]
                         ELSE hw_device[i]]
    IN  /\ working_on = "vm"
        /\ hw_device' = IF accepted THEN host_insert(new_disk, with_disk)
                        ELSE hw_device
        /\ last_add' = AddRecord("DiskManager", controller.key, hw_device,
                                 used_units, unitNumber,
                                 IF raises THEN 0 ELSE 1,
                                 IF raises THEN "raised"
                                 ELSE IF accepted THEN "ok" ELSE "TaskError",
                                 accepted)
        /\ UNCHANGED <<working_on, max_devices, devices, last_used_key,
                       last_used_scsi_bus, last_device_call>>
        /\ UNCHANGED <<powerVars, editVars, snapshotVars, importVars, otherVars>>

\* DiskManager.remove(disk): one Reconfigure with a remove change-set
DiskManager_remove(disk, task_ok) ==
    /\ working_on = "vm"
    /\ hw_device' =
         IF task_ok
         THEN LET kept == SelectSeq(hw_device, LAMBDA d : d.key # disk.key)
              IN  [i \in 1..Len(kept) |->
                     [kept[i] EXCEPT !.device = @ \ {disk.key}]]
         ELSE hw_device
    /\ last_add' = [engine |-> "remove", controller_key |-> None,
                    used_before |-> {}, len_before |-> 0,
                    unit |-> None, reconfigures |-> 1,
                    outcome |-> IF task_ok THEN "ok" ELSE "TaskError",
                    added |-> FALSE]
    /\ UNCHANGED <<working_on, max_devices, devices, last_used_key,
                   last_used_scsi_bus, last_device_call>>
    /\ UNCHANGED <<powerVars, editVars, snapshotVars, importVars, otherVars>>

\* a key source that returns the last used key again once one was handed out
NextKeyNotAdvanced == IF last_used_key = 0 THEN last_used_key - 1 ELSE last_used_key

\* CreateVMSpec._get_next_free_key
get_next_free_key == last_used_key - 1

\* CreateVMSpec._get_next_free_scsi_bus
get_next_free_scsi_bus == last_used_scsi_bus + 1

\* CreateVMSpec.add_scsi_controller(type, bus_sharing)
add_scsi_controller ==
    /\ working_on = "create_vm_spec"
    /\ Len(devices) < MaxBatchDevices
    /\ Cardinality(Controllers(devices)) < MaxBatchControllers
    /\ last_used_key' = get_next_free_key
    /\ last_used_scsi_bus' = get_next_free_scsi_bus
    /\ devices' = Append(devices,
                         WithBusNumber(Device(get_next_free_key, "scsi", None,
                                              None, None, {}),
                                       get_next_free_scsi_bus))
    /\ UNCHANGED <<working_on, max_devices, hw_device, last_add,
                   last_device_call>>
    /\ UNCHANGED <<powerVars, editVars, snapshotVars, importVars, otherVars>>

\* CreateVMSpec.add_disk(size_in_mb, backing, controller), for a controller
\* that add_scsi_controller returned
add_disk(controller) ==
    LET used_units == CreateVMSpec_get_used_units(controller, devices)
        unitNumber == next_free_unit(used_units,
                                     find_device_option_by_type.devices_max)
        raises     == unitNumber \in {IndexError, TypeError}
        new_disk   == Device(get_next_free_key, "disk", controller.key,
                             unitNumber, None, {})
    IN  /\ working_on = "create_vm_spec"
        /\ Len(devices) < MaxBatchDevices
        /\ last_used_key' = get_next_free_key
        /\ devices' = IF raises THEN devices ELSE Append(devices, new_disk)
        /\ last_add' = AddRecord("CreateVMSpec", controller.key, devices,
                                 used_units, unitNumber, 0,
                                 IF raises THEN "raised" ELSE "ok", ~raises)
        /\ UNCHANGED <<working_on, max_devices, hw_device, last_used_scsi_bus,
                       last_device_call>>
        /\ UNCHANGED <<powerVars, editVars, snapshotVars, importVars, otherVars>>

AllocNext ==
    \/ \E c \in Controllers(hw_device), ok \in BOOLEAN : DiskManager_add(c, ok)
    \/ \E c \in Controllers(hw_device) :
          \E d \in DisksOn(hw_device, c.key), ok \in BOOLEAN :
              DiskManager_remove(d, ok)
    \/ add_scsi_controller
    \/ \E c \in Controllers(devices) : add_disk(c)

\* ---------------------------------------------------------------------------
\* Snapshots (vtools/snapshot.py; vtools/vm.py SnapshotManager and
\* VM.revert_to_snapshot; vtools.py VM.create_snapshot;
\* vtools/cli/snapshot.py create_snapshot)
\* ---------------------------------------------------------------------------

\* the VMs of the host
VMs == {"vm1", "vm2"}

\* the snapshot names a caller asks for
SnapshotNames == {"s1", "s2"}

\* most snapshots the host is asked to create
MaxSnapshots == 4

\* no snapshot: currentSnapshot of a VM without snapshots
NoSnapshot == 0

\* a vim.vm.SnapshotTree node
SnapshotTree(id, name, children) ==
    [snapshot |-> id, name |-> name, childSnapshotList |-> children]

\* a traversal that appends a node after its children
RECURSIVE FlattenPostOrder(_)
FlattenPostOrder(from_list) ==
    IF from_list = <<>> THEN <<>>
    ELSE FlattenPostOrder(Head(from_list).childSnapshotList)
         \o <<Head(from_list)>>
         \o FlattenPostOrder(Tail(from_list))

\* flatten_snapshot_tree(from_list, to_list): what it appends to to_list
RECURSIVE flatten_snapshot_tree(_)
flatten_snapshot_tree(from_list) ==
    IF from_list = <<>> THEN <<>>
    ELSE <<Head(from_list)>>
         \o flatten_snapshot_tree(Head(from_list).childSnapshotList)
         \o flatten_snapshot_tree(Tail(from_list))

\* Python's None where find_snapshot_tree returns no SnapshotTree
NoneTree == [snapshot |-> NoSnapshot, name |-> "None", childSnapshotList |-> <<>>]

\* a search that looks at the trees of from_list and not at their children
RECURSIVE FindAmongRootsOnly(_, _)
FindAmongRootsOnly(from_list, by_snapshot) ==
    IF from_list = <<>> THEN NoneTree
    ELSE IF Head(from_list).snapshot = by_snapshot THEN Head(from_list)
    ELSE FindAmongRootsOnly(Tail(from_list), by_snapshot)

\* find_snapshot_tree(from_list, by_snapshot): for each tree of from_list,
\* the tree itself if it carries the snapshot, else a match among its
\* children if it has children and there is one, else the next tree; None
\* after the last
RECURSIVE find_snapshot_tree(_, _)
find_snapshot_tree(from_list, by_snapshot) ==
    IF from_list = <<>> THEN NoneTree
    ELSE LET snapshot_tree == Head(from_list)
             matched_child_snapshot_tree ==
                 IF snapshot_tree.childSnapshotList # <<>>
                 THEN find_snapshot_tree(snapshot_tree.childSnapshotList,
                                         by_snapshot)
                 ELSE NoneTree
         IN  IF snapshot_tree.snapshot = by_snapshot THEN snapshot_tree
             ELSE IF matched_child_snapshot_tree # NoneTree
             THEN matched_child_snapshot_tree
             ELSE find_snapshot_tree(Tail(from_list), by_snapshot)

\* list_snapshots_recursively(snapshot_data, snapshots) of vtools.py
RECURSIVE list_snapshots_recursively(_)
list_snapshots_recursively(snapshots) ==
    IF snapshots = <<>> THEN <<>>
    ELSE <<Head(snapshots)>>
         \o list_snapshots_recursively(Head(snapshots).childSnapshotList)
         \o list_snapshots_recursively(Tail(snapshots))

\* SnapshotManager._list_all
SnapshotManager_list_all(vm) ==
    flatten_snapshot_tree(snapshot[vm].rootSnapshotList)

\* VM.get_snapshot(name) of vtools.py is not None
get_snapshot(vm, name) ==
    LET snapshots == list_snapshots_recursively(snapshot[vm].rootSnapshotList)
    IN  \E i \in 1..Len(snapshots) : snapshots[i].name = name

\* the host puts a new snapshot under the current one
RECURSIVE host_add_child(_, _, _)
host_add_child(forest, parent, node) ==
    [i \in 1..Len(forest) |->
        IF forest[i].snapshot = parent
        THEN [forest[i] EXCEPT !.childSnapshotList = Append(@, node)]
        ELSE [forest[i] EXCEPT
                !.childSnapshotList = host_add_child(@, parent, node)]]

\* the host's CreateSnapshot: a new node under the current snapshot (a new
\* root when there is none), which becomes the current snapshot
host_create_snapshot(info, id, name) ==
    [rootSnapshotList |->
        IF info.currentSnapshot = NoSnapshot
        THEN Append(info.rootSnapshotList, SnapshotTree(id, name, <<>>))
        ELSE host_add_child(info.rootSnapshotList, info.currentSnapshot,
                            SnapshotTree(id, name, <<>>)),
     currentSnapshot |-> id]

\* the names in a VM's snapshot forest, at any depth
NamesOf(vm) ==
    LET all == SnapshotManager_list_all(vm)
    IN  {all[i].name : i \in 1..Len(all)}

\* the identifiers in a VM's snapshot forest
SnapshotsOf(vm) ==
    LET all == SnapshotManager_list_all(vm)
    IN  {all[i].snapshot : i \in 1..Len(all)}

\* snapshot.vim_obj.vm: the VM the host records as the snapshot's parent
snapshot_vm(id) == CHOOSE vm \in VMs : id \in SnapshotsOf(vm)

\* an ownership test that lets every snapshot through
OwnerNeverDiffers(owner, vm) == FALSE

\* the ownership test of revert_to_snapshot and delete
snapshot_vm_differs(owner, vm) == owner # vm

\* the removeChildren argument the code passes to Remove
RemoveChildrenTrue == TRUE

removeChildren == FALSE

\* the host's parent of a snapshot (NoSnapshot for a root)
RECURSIVE host_parent_of(_, _, _)
host_parent_of(forest, id, parent) ==
    IF forest = <<>> THEN NoSnapshot
    ELSE LET h == Head(forest)
             below == host_parent_of(h.childSnapshotList, id, h.snapshot)
         IN  IF h.snapshot = id THEN parent
             ELSE IF below # NoSnapshot THEN below
             ELSE host_parent_of(Tail(forest), id, parent)

\* the host's Remove on a forest: with removeChildren the whole subtree goes,
\* without it the children take the place of the removed node
RECURSIVE host_remove(_, _, _)
host_remove(forest, id, remove_children) ==
    IF forest = <<>> THEN <<>>
    ELSE LET h == Head(forest)
             rest == host_remove(Tail(forest), id, remove_children)
         IN  IF h.snapshot = id
             THEN (IF remove_children THEN <<>> ELSE h.childSnapshotList) \o rest
             ELSE <<[h EXCEPT !.childSnapshotList =
                                 host_remove(@, id, remove_children)]>> \o rest

\* the host's Remove on a VM: a removed current snapshot is replaced by the
\* parent of the removed node
host_remove_snapshot(info, id, remove_children) ==
    LET forest == host_remove(info.rootSnapshotList, id, remove_children)
        left == flatten_snapshot_tree(forest)
    IN  [rootSnapshotList |-> forest,
         currentSnapshot |->
            IF \E i \in 1..Len(left) : left[i].snapshot = info.currentSnapshot
            THEN info.currentSnapshot
            ELSE host_parent_of(info.rootSnapshotList, id, NoSnapshot)]

\* the node of a snapshot in a forest
snapshot_tree_of(id) ==
    LET all == SnapshotManager_list_all(snapshot_vm(id))
    IN  all[CHOOSE i \in 1..Len(all) : all[i].snapshot = id]

\* what a snapshot creation leaves in the revert / delete history
NoTreeCall ==
    [op |-> "none", vm |-> "vm1", id |-> NoSnapshot, owner |-> "vm1",
     had_children |-> FALSE, host_calls |-> 0, remove_children |-> FALSE,
     outcome |-> "none", before |-> snapshot]

\* what a revert or delete saw and did
TreeRecord(op, vm, id, host_calls, outcome) ==
    [op |-> op, vm |-> vm, id |-> id, owner |-> snapshot_vm(id),
     had_children |-> snapshot_tree_of(id).childSnapshotList # <<>>,
     host_calls |-> host_calls, remove_children |-> removeChildren,
     outcome |-> outcome, before |-> snapshot]

\* what a revert or delete leaves in the creation history
NotACreate ==
    [op |-> "none", vm |-> "vm1", name |-> "s1", existed |-> FALSE,
     existed_elsewhere |-> FALSE, create_calls |-> 0, outcome |-> "none"]

SnapshotInit ==
    /\ snapshot = [vm \in VMs |->
                     [rootSnapshotList |-> <<>>, currentSnapshot |-> NoSnapshot]]
    /\ next_snapshot = 1
    /\ last_snapshot_call = NotACreate
    /\ last_tree_call = NoTreeCall

\* what a snapshot creation saw and did
CreateRecord(op, vm, name, create_calls, outcome) ==
    [op |-> op, vm |-> vm, name |-> name, existed |-> name \in NamesOf(vm),
     existed_elsewhere |-> \E other \in VMs \ {vm} : name \in NamesOf(other),
     create_calls |-> create_calls, outcome |-> outcome]

\* the CreateSnapshot call and WaitForTask on its task
submit_create_snapshot(op, vm, name, task_ok) ==
    /\ next_snapshot <= MaxSnapshots
    /\ IF task_ok
       THEN /\ snapshot' = [snapshot EXCEPT
                              ![vm] = host_create_snapshot(@, next_snapshot, name)]
            /\ next_snapshot' = next_snapshot + 1
       ELSE UNCHANGED <<snapshot, next_snapshot>>
    /\ last_snapshot_call' = CreateRecord(op, vm, name, 1,
                                          IF task_ok THEN "ok" ELSE "TaskError")

\* SnapshotManager.create(name, snapshot_type, description), which
\* vtools/cli/snapshot.py create_snapshot calls: CreateSnapshot, WaitForTask,
\* find_snapshot_tree
SnapshotManager_create(vm, name, task_ok) ==
    /\ submit_create_snapshot("SnapshotManager.create", vm, name, task_ok)
    /\ last_tree_call' = NoTreeCall
    /\ UNCHANGED <<powerVars, editVars, allocVars, importVars, otherVars>>

\* VM.create_snapshot(name, ...) of vtools.py: an existing name is refused
\* with a message before CreateSnapshot is called
VM_create_snapshot(vm, name, task_ok) ==
    /\ IF get_snapshot(vm, name)
       THEN /\ last_snapshot_call' = CreateRecord("VM.create_snapshot", vm,
                                                  name, 0, "rejected")
            /\ UNCHANGED <<snapshot, next_snapshot>>
       ELSE submit_create_snapshot("VM.create_snapshot", vm, name, task_ok)
    /\ last_tree_call' = NoTreeCall
    /\ UNCHANGED <<powerVars, editVars, allocVars, importVars, otherVars>>

\* VM.revert_to_snapshot(snapshot): a snapshot of another VM raises
\* InvalidStateError; otherwise Revert, WaitForTask, and the host makes it the
\* current snapshot
revert_to_snapshot(vm, id, task_ok) ==
    /\ \E owner \in VMs : id \in SnapshotsOf(owner)
    /\ IF snapshot_vm_differs(snapshot_vm(id), vm)
       THEN /\ last_tree_call' = TreeRecord("revert", vm, id, 0,
                                            "InvalidStateError")
            /\ UNCHANGED snapshot
       ELSE /\ last_tree_call' = TreeRecord("revert", vm, id, 1,
                                     IF task_ok THEN "ok" ELSE "TaskError")
            /\ snapshot' = IF task_ok
                           THEN [snapshot EXCEPT
                                   ![snapshot_vm(id)].currentSnapshot = id]
                           ELSE snapshot
    /\ last_snapshot_call' = NotACreate
    /\ UNCHANGED next_snapshot
    /\ UNCHANGED <<powerVars, editVars, allocVars, importVars, otherVars>>

\* Remove(removeChildren) on a snapshot and WaitForTask on its task
submit_remove(op, vm, id, task_ok) ==
    /\ last_tree_call' = TreeRecord(op, vm, id, 1,
                                    IF task_ok THEN "ok" ELSE "TaskError")
    /\ snapshot' = IF task_ok
                   THEN [snapshot EXCEPT ![snapshot_vm(id)] =
                           host_remove_snapshot(@, id, removeChildren)]
                   ELSE snapshot

\* SnapshotManager.delete(snapshot): a snapshot of another VM raises
\* InvalidStateError; otherwise Remove(False), WaitForTask
SnapshotManager_delete(vm, id, task_ok) ==
    /\ \E owner \in VMs : id \in SnapshotsOf(owner)
    /\ IF snapshot_vm_differs(snapshot_vm(id), vm)
       THEN /\ last_tree_call' = TreeRecord("delete", vm, id, 0,
                                            "InvalidStateError")
            /\ UNCHANGED snapshot
       ELSE submit_remove("delete", vm, id, task_ok)
    /\ last_snapshot_call' = NotACreate
    /\ UNCHANGED next_snapshot
    /\ UNCHANGED <<powerVars, editVars, allocVars, importVars, otherVars>>

\* VM.destroy_snapshot(name) of vtools.py: the first snapshot of that name in
\* the VM's list, Snapshot.remove() on it; no such snapshot prints a message
VM_destroy_snapshot(vm, name, task_ok) ==
    /\ get_snapshot(vm, name)
    /\ LET snapshots == list_snapshots_recursively(snapshot[vm].rootSnapshotList)
           first == CHOOSE i \in 1..Len(snapshots) :
                       /\ snapshots[i].name = name
                       /\ \A j \in 1..(i - 1) : snapshots[j].name # name
       IN  submit_remove("destroy_snapshot", vm, snapshots[first].snapshot,
                         task_ok)
    /\ last_snapshot_call' = NotACreate
    /\ UNCHANGED next_snapshot
    /\ UNCHANGED <<powerVars, editVars, allocVars, importVars, otherVars>>

SnapshotNext ==
    \/ \E vm \in VMs, name \in SnapshotNames, ok \in BOOLEAN :
          SnapshotManager_create(vm, name, ok)
    \/ \E vm \in VMs, name \in SnapshotNames, ok \in BOOLEAN :
          VM_create_snapshot(vm, name, ok)
    \/ \E vm \in VMs, id \in 1..MaxSnapshots, ok \in BOOLEAN :
          revert_to_snapshot(vm, id, ok)

\* the name the tree commands are given: every snapshot may carry it, since
\* SnapshotManager.create accepts a name that is already there
TreeNames == {"s1"}

\* the snapshot commands that walk and change a tree
TreeNext ==
    \/ \E vm \in VMs, name \in TreeNames, ok \in BOOLEAN :
          SnapshotManager_create(vm, name, ok)
    \/ \E vm \in VMs, id \in 1..MaxSnapshots, ok \in BOOLEAN :
          revert_to_snapshot(vm, id, ok)
    \/ \E vm \in VMs, id \in 1..MaxSnapshots, ok \in BOOLEAN :
          SnapshotManager_delete(vm, id, ok)
    \/ \E vm \in VMs, name \in TreeNames, ok \in BOOLEAN :
          VM_destroy_snapshot(vm, name, ok)

\* ---------------------------------------------------------------------------
\* SCSI controllers on a VM (vtools/vm.py ScsiControllerManager, vtools/esxi.py
\* VMManager.add_scsi_controller / remove_scsi_controller) and VM.add_disk of
\* vtools.py
\* ---------------------------------------------------------------------------

\* the highest SCSI bus number the host accepts
MaxBusNumber == 3

\* scsi_ctr.device.busNumber = 1 of VMManager.add_scsi_controller
FixedBusNumber == 1

\* if unit_number >= 16 of VM.add_disk
TooManyDisks == 16

\* the units at which another client puts a disk on a SATA controller
SataUnits == {0, 15}

\* ScsiControllerManager._list_all: the SCSI controllers in device order
existing_scsi_controllers(device_list) ==
    SelectSeq(device_list, LAMBDA d : d.type = "scsi")

\* busNumber = len(existing_scsi_controllers) + 1
next_scsi_bus(existing) == Len(existing) + 1

\* the bus numbers of the SCSI controllers of a device list
BusNumbers(device_list) == {c.busNumber : c \in Controllers(device_list)}

\* the host's key for the SCSI controller of a bus, and for a disk at a unit
\* of that bus
host_controller_key(bus) == 1000 + bus

host_disk_key_on(bus, unit) == 2000 + 16 * bus + unit

\* the host adds a SCSI controller whose bus number is in range and free
host_accepts_controller(bus, device_list) ==
    /\ bus \in 0..MaxBusNumber
    /\ bus \notin BusNumbers(device_list)

\* what a controller call or VM.add_disk saw and did
DeviceCallRecord(op, bus, reconfigures, outcome) ==
    [op |-> op, bus |-> bus, buses_before |-> BusNumbers(hw_device),
     had_scsi |-> Controllers(hw_device) # {}, reconfigures |-> reconfigures,
     outcome |-> outcome, before |-> hw_device]

\* one Reconfigure that adds a SCSI controller with the given bus number
reconfigure_add_controller(op, bus, task_ok) ==
    LET accepted == task_ok /\ host_accepts_controller(bus, hw_device)
        new_controller ==
            WithBusNumber(Device(host_controller_key(bus), "scsi", 100, 3 + bus,
                                 ScsiCtlrUnitNumber, {}), bus)
    IN  /\ working_on = "vm"
        /\ hw_device' = IF accepted THEN host_insert(new_controller, hw_device)
                        ELSE hw_device
        /\ last_device_call' = DeviceCallRecord(op, bus, 1,
                                   IF accepted THEN "ok" ELSE "TaskError")
        /\ UNCHANGED <<working_on, max_devices, devices, last_used_key,
                       last_used_scsi_bus, last_add>>
        /\ UNCHANGED <<powerVars, editVars, snapshotVars, importVars, otherVars>>

\* ScsiControllerManager.add(spec)
ScsiControllerManager_add(task_ok) ==
    reconfigure_add_controller(
        "ScsiControllerManager.add",
        next_scsi_bus(existing_scsi_controllers(hw_device)), task_ok)

\* VMManager.add_scsi_controller(vm)
VMManager_add_scsi_controller(task_ok) ==
    reconfigure_add_controller("VMManager.add_scsi_controller", FixedBusNumber,
                               task_ok)

\* the class VM of vtools/vm.py has the attributes cpu, memory,
\* scsi_controllers, disks and snapshots
VM_attributes == {"cpu", "memory", "scsi_controllers", "disks", "snapshots"}

\* the command of a CLI module that reaches the add through an accessor of
\* vm_obj: an accessor the class VM does not have raises AttributeError
\* before the add is called
cli_add_scsi_controller(op, accessor, task_ok) ==
    IF accessor \in VM_attributes
    THEN reconfigure_add_controller(op, FixedBusNumber, task_ok)
    ELSE /\ working_on = "vm"
         /\ last_device_call' = DeviceCallRecord(op, None, 0, "AttributeError")
         /\ UNCHANGED <<working_on, max_devices, hw_device, devices,
                        last_used_key, last_used_scsi_bus, last_add>>
         /\ UNCHANGED <<powerVars, editVars, snapshotVars, importVars, otherVars>>

\* add_scsi_controller of vtools/cli/disk.py: the duplicate test reads
\* vm_obj.disk_manager().list()
cli_disk_add_scsi_controller(task_ok) ==
    cli_add_scsi_controller("cli.disk.add_scsi_controller", "disk_manager",
                            task_ok)

\* add_scsi_controller of vtools/cli/controller.py:
\* vm_obj.controller_manager().add_scsi_controller()
cli_controller_add_scsi_controller(task_ok) ==
    cli_add_scsi_controller("cli.controller.add_scsi_controller",
                            "controller_manager", task_ok)

\* VMManager.remove_scsi_controller(vm, disk_num): the controller labelled
\* "SCSI controller <disk_num>" (the host labels a controller by its bus
\* number); none prints a message and leaves through sys.exit(); the host
\* removes a controller that has no device attached
VMManager_remove_scsi_controller(disk_num, task_ok) ==
    LET found == {c \in Controllers(hw_device) : c.busNumber = disk_num}
        accepted == task_ok /\ \A c \in found : c.device = {}
    IN  /\ working_on = "vm"
        /\ hw_device' = IF found # {} /\ accepted
                        THEN SelectSeq(hw_device, LAMBDA d : d \notin found)
                        ELSE hw_device
        /\ last_device_call' =
              DeviceCallRecord("VMManager.remove_scsi_controller", disk_num,
                               IF found = {} THEN 0 ELSE 1,
                               IF found = {} THEN "SystemExit"
                               ELSE IF accepted THEN "ok" ELSE "TaskError")
        /\ UNCHANGED <<working_on, max_devices, devices, last_used_key,
                       last_used_scsi_bus, last_add>>
        /\ UNCHANGED <<powerVars, editVars, snapshotVars, importVars, otherVars>>

\* the loop of VM.add_disk over config.hardware.device: a SCSI controller
\* becomes the controller and adds one to unit_number; a device with a file
\* backing (a disk) sets unit_number to its unit plus one, and 16 or more
\* ends the call
RECURSIVE add_disk_scan(_, _, _)
add_disk_scan(device_list, unit_number, controller) ==
    IF device_list = <<>>
    THEN [unit_number |-> unit_number, controller |-> controller,
          too_many |-> FALSE]
    ELSE LET device == Head(device_list)
             seen == IF device.type = "scsi" THEN device.key ELSE controller
             counted == IF device.type = "scsi" THEN unit_number + 1
                        ELSE unit_number
             next == IF device.type = "disk" THEN device.unitNumber + 1
                     ELSE counted
         IN  IF device.type = "disk" /\ next >= TooManyDisks
             THEN [unit_number |-> next, controller |-> seen, too_many |-> TRUE]
             ELSE add_disk_scan(Tail(device_list), next, seen)

\* VM.add_disk(disk_size, disk_type) of vtools.py
VM_add_disk(task_ok) ==
    LET scan == add_disk_scan(hw_device, 0, None)
        controller == CHOOSE c \in Controllers(hw_device) :
                          c.key = scan.controller
        accepted == /\ task_ok
                    /\ scan.unit_number < TooManyDisks
                    /\ host_accepts_disk(controller, scan.unit_number, hw_device)
        new_disk == Device(host_disk_key_on(controller.busNumber,
                                            scan.unit_number),
                           "disk", controller.key, scan.unit_number, None, {})
        with_disk == [i \in 1..Len(hw_device) |->
                        IF hw_device[i].key = controller.key
                        THEN [hw_device[i] EXCEPT
                                !.device = @ \cup {new_disk.key}]
                        ELSE hw_device[i]]
    IN  /\ working_on = "vm"
        /\ IF scan.too_many
           THEN /\ last_device_call' = DeviceCallRecord("VM.add_disk", None, 0,
                                          "we don't support this many disks")
                /\ UNCHANGED hw_device
           ELSE IF scan.controller = None
           THEN /\ last_device_call' = DeviceCallRecord("VM.add_disk", None, 0,
                                          "Disk SCSI controller not found!")
                /\ UNCHANGED hw_device
           ELSE /\ last_device_call' =
                      DeviceCallRecord("VM.add_disk", controller.busNumber, 1,
                                       IF accepted THEN "ok" ELSE "TaskError")
                /\ hw_device' = IF accepted THEN host_insert(new_disk, with_disk)
                                ELSE hw_device
        /\ UNCHANGED <<working_on, max_devices, devices, last_used_key,
                       last_used_scsi_bus, last_add>>
        /\ UNCHANGED <<powerVars, editVars, snapshotVars, importVars, otherVars>>

\* another client of the host gives the VM a SATA controller (key 15000) with
\* a disk at one of its units
other_client_adds_sata_disk(unit) ==
    LET sata == Device(15000, "sata", 100, 4, None, {16000 + unit})
        disk == Device(16000 + unit, "disk", 15000, unit, None, {})
    IN  /\ working_on = "vm"
        /\ \A d \in Elements(hw_device) : d.type # "sata"
        /\ hw_device' = host_insert(disk, host_insert(sata, hw_device))
        /\ last_device_call' = DeviceCallRecord("other client", None, 0, "ok")
        /\ UNCHANGED <<working_on, max_devices, devices, last_used_key,
                       last_used_scsi_bus, last_add>>
        /\ UNCHANGED <<powerVars, editVars, snapshotVars, importVars, otherVars>>

BusNext ==
    \/ \E ok \in BOOLEAN : ScsiControllerManager_add(ok)
    \/ \E ok \in BOOLEAN : VMManager_add_scsi_controller(ok)
    \/ \E ok \in BOOLEAN : cli_disk_add_scsi_controller(ok)
    \/ \E ok \in BOOLEAN : cli_controller_add_scsi_controller(ok)
    \/ \E disk_num \in 0..MaxBusNumber, ok \in BOOLEAN :
          VMManager_remove_scsi_controller(disk_num, ok)
    \/ \E ok \in BOOLEAN : VM_add_disk(ok)
    \/ \E unit \in SataUnits : other_client_adds_sata_disk(unit)
    \/ add_scsi_controller

\* ---------------------------------------------------------------------------
\* OVF import (vtools/vsphere.py create_import_spec, create_http_nfc_lease,
\* deploy_vm_with_pull_mode; vtools/esxi.py VMManager.import_ovf; vtools/vm.py
\* OvfImportSpec.create_vm)
\* ---------------------------------------------------------------------------

\* stop_after_attempt(6) of wait_until_http_nfc_lease_ready
LeaseMaxAttempts == 6

\* most file items in a negotiated manifest
MaxFileItems == 2

\* vim.HttpNfcLease.State as the poll can read it
LeaseState == {"initializing", "ready", "error"}

\* what the host can report after a read of the given state: error is final
lease_state_after(state) ==
    IF state = "error" THEN {"error"} ELSE LeaseState

\* the test of wait_until_http_nfc_lease_ready: not ready raises TryAgain
LeaseReadyUnlessError(state) == state = "error"

lease_not_ready(state) == state # "ready"

\* the OVF URL the caller supplies, as directory and document
ovf_url == [dir |-> "http://host/appliance/", name |-> "vm.ovf"]

\* urljoin(ovf_url, file.path) for a relative path: the path replaces the
\* document name
urljoin(base, path) == [dir |-> base.dir, name |-> path]

\* the manifests the host can negotiate: file items in the descriptor's order
FileItem(n) ==
    [deviceId |-> n, path |-> IF n = 1 THEN "disk1.vmdk" ELSE "disk2.vmdk",
     create |-> n = 1]

Manifests == {[i \in 1..n |-> FileItem(i)] : n \in 0..MaxFileItems}

\* a batch with the first file item only
BuildFirstSourceFileOnly(items) ==
    IF items = <<>> THEN <<>>
    ELSE <<[targetDeviceId |-> items[1].deviceId,
            url |-> urljoin(ovf_url, items[1].path),
            sslThumbprint |-> "", create |-> items[1].create]>>

\* the loop of deploy_vm_with_pull_mode: one SourceFile per file item
build_source_files(items) ==
    [i \in 1..Len(items) |->
        [targetDeviceId |-> items[i].deviceId,
         url |-> urljoin(ovf_url, items[i].path),
         sslThumbprint |-> "", create |-> items[i].create]]

\* a wait that returns whatever the task's outcome
WaitNeverRaises(task_ok) == FALSE

\* WaitForTask(task) raises the task's error when the task failed
WaitForTask_raises(task_ok) == ~task_ok

\* the two import functions
ImportEngines == {"VMManager.import_ovf", "OvfImportSpec.create_vm"}

\* how an exception out of the lease, pull or completion phase ends the
\* import: import_ovf is wrapped by handle_exceptions() (message, sys.exit),
\* create_vm lets it propagate
import_raises(exception) ==
    IF import_engine = "VMManager.import_ovf" THEN "SystemExit" ELSE exception

ImportInit ==
    /\ import_pc = "idle"
    /\ import_engine = "VMManager.import_ovf"
    /\ calls = <<>>
    /\ lease_state = "none"
    /\ lease_reads = 0
    /\ file_items = <<>>
    /\ source_files = <<>>
    /\ pull_task = "none"
    /\ import_outcome = "none"

\* import_ovf(name, datastore, ovf_url) / create_vm(name, esxi, datastore)
\* is called
import_call(engine) ==
    /\ import_pc \in {"idle", "done", "failed"}
    /\ import_pc' = "fetch"
    /\ import_engine' = engine
    /\ calls' = <<>>
    /\ lease_state' = "none"
    /\ lease_reads' = 0
    /\ file_items' = <<>>
    /\ source_files' = <<>>
    /\ pull_task' = "none"
    /\ import_outcome' = "running"
    /\ UNCHANGED <<powerVars, editVars, allocVars, snapshotVars, otherVars>>

\* a fetch that is tried a second time after a first failure
RequestsGetTwice(ok) ==
    /\ import_pc = "fetch"
    /\ calls' = Append(calls, "requests.get")
    /\ import_pc' = IF ok THEN "negotiate"
                    ELSE IF calls = <<>> THEN "fetch" ELSE "failed"
    /\ import_outcome' = IF ok \/ calls = <<>> THEN import_outcome
                         ELSE "SystemExit"
    /\ UNCHANGED <<import_engine, lease_state, lease_reads, file_items,
                   source_files, pull_task>>
    /\ UNCHANGED <<powerVars, editVars, allocVars, snapshotVars, otherVars>>

\* create_import_spec: requests.get(ovf_url); an exception is printed by
\* handle_exceptions, which ends the process
requests_get(ok) ==
    /\ import_pc = "fetch"
    /\ calls' = Append(calls, "requests.get")
    /\ import_pc' = IF ok THEN "negotiate" ELSE "failed"
    /\ import_outcome' = IF ok THEN import_outcome ELSE "SystemExit"
    /\ UNCHANGED <<import_engine, lease_state, lease_reads, file_items,
                   source_files, pull_task>>
    /\ UNCHANGED <<powerVars, editVars, allocVars, snapshotVars, otherVars>>

\* create_import_spec: ovfManager.CreateImportSpec(descriptor, pool,
\* datastore, params), which returns the manifest
CreateImportSpec(manifest, ok) ==
    /\ import_pc = "negotiate"
    /\ calls' = Append(calls, "CreateImportSpec")
    /\ import_pc' = IF ok THEN "lease" ELSE "failed"
    /\ file_items' = IF ok THEN manifest ELSE file_items
    /\ import_outcome' = IF ok THEN import_outcome ELSE "SystemExit"
    /\ UNCHANGED <<import_engine, lease_state, lease_reads, source_files,
                   pull_task>>
    /\ UNCHANGED <<powerVars, editVars, allocVars, snapshotVars, otherVars>>

\* create_http_nfc_lease: resource_pool.ImportVApp(spec, folder)
ImportVApp(ok) ==
    /\ import_pc = "lease"
    /\ calls' = Append(calls, "ImportVApp")
    /\ import_pc' = IF ok THEN "poll" ELSE "failed"
    /\ import_outcome' = IF ok THEN import_outcome ELSE import_raises("Fault")
    /\ UNCHANGED <<import_engine, lease_state, lease_reads, file_items,
                   source_files, pull_task>>
    /\ UNCHANGED <<powerVars, editVars, allocVars, snapshotVars, otherVars>>

\* one attempt of wait_until_http_nfc_lease_ready: read the lease state; not
\* ready raises TryAgain, and the attempt that reaches the stop raises
\* RetryError
wait_until_http_nfc_lease_ready(state) ==
    /\ import_pc = "poll"
    /\ state \in lease_state_after(lease_state)
    /\ lease_state' = state
    /\ lease_reads' = lease_reads + 1
    /\ IF lease_not_ready(state)
       THEN IF stop_after_attempt(lease_reads + 1, LeaseMaxAttempts)
            THEN /\ import_pc' = "failed"
                 /\ import_outcome' = import_raises("RetryError")
            ELSE UNCHANGED <<import_pc, import_outcome>>
       ELSE /\ import_pc' = "pull"
            /\ UNCHANGED import_outcome
    /\ UNCHANGED <<import_engine, calls, file_items, source_files, pull_task>>
    /\ UNCHANGED <<powerVars, editVars, allocVars, snapshotVars, otherVars>>

\* a pull that aborts the lease when its task failed
DeployAbortsLeaseOnFailure(task_ok) ==
    /\ import_pc = "pull"
    /\ source_files' = build_source_files(file_items)
    /\ calls' = IF task_ok THEN Append(calls, "PullFromUrls")
                ELSE calls \o <<"PullFromUrls", "HttpNfcLeaseAbort">>
    /\ pull_task' = IF task_ok THEN "success" ELSE "error"
    /\ import_pc' = IF WaitForTask_raises(task_ok) THEN "failed" ELSE "complete"
    /\ import_outcome' = IF WaitForTask_raises(task_ok)
                         THEN import_raises("TaskError")
                         ELSE import_outcome
    /\ UNCHANGED <<import_engine, lease_state, lease_reads, file_items>>
    /\ UNCHANGED <<powerVars, editVars, allocVars, snapshotVars, otherVars>>

\* deploy_vm_with_pull_mode: build the source files, PullFromUrls,
\* WaitForTask
deploy_vm_with_pull_mode(task_ok) ==
    /\ import_pc = "pull"
    /\ source_files' = build_source_files(file_items)
    /\ calls' = Append(calls, "PullFromUrls")
    /\ pull_task' = IF task_ok THEN "success" ELSE "error"
    /\ import_pc' = IF WaitForTask_raises(task_ok) THEN "failed" ELSE "complete"
    /\ import_outcome' = IF WaitForTask_raises(task_ok)
                         THEN import_raises("TaskError")
                         ELSE import_outcome
    /\ UNCHANGED <<import_engine, lease_state, lease_reads, file_items>>
    /\ UNCHANGED <<powerVars, editVars, allocVars, snapshotVars, otherVars>>

\* http_nfc_lease.Complete() and the return: import_ovf looks the VM up by
\* name; create_vm reads task.info.result of the value deploy_vm_with_pull_mode
\* returned, which is None
Complete(ok) ==
    /\ import_pc = "complete"
    /\ calls' = Append(calls, "Complete")
    /\ IF ~ok
       THEN /\ import_pc' = "failed"
            /\ import_outcome' = import_raises("Fault")
       ELSE IF import_engine = "VMManager.import_ovf"
       THEN /\ import_pc' = "done"
            /\ import_outcome' = "ok"
       ELSE /\ import_pc' = "failed"
            /\ import_outcome' = "AttributeError"
    /\ UNCHANGED <<import_engine, lease_state, lease_reads, file_items,
                   source_files, pull_task>>
    /\ UNCHANGED <<powerVars, editVars, allocVars, snapshotVars, otherVars>>

ImportNext ==
    \/ \E engine \in ImportEngines : import_call(engine)
    \/ \E ok \in BOOLEAN : requests_get(ok)
    \/ \E manifest \in Manifests, ok \in BOOLEAN : CreateImportSpec(manifest, ok)
    \/ \E ok \in BOOLEAN : ImportVApp(ok)
    \/ \E state \in LeaseState : wait_until_http_nfc_lease_ready(state)
    \/ \E ok \in BOOLEAN : deploy_vm_with_pull_mode(ok)
    \/ \E ok \in BOOLEAN : Complete(ok)

\* ---------------------------------------------------------------------------
\* Disk removal by label (vtools.py VM.remove_disk)
\* ---------------------------------------------------------------------------

\* the largest ordinal the host puts into a disk label
MaxOrdinal == 3

\* the highest unit at which a disk is added to a SCSI controller
MaxDiskUnit == 2

DiskUnits == 0..MaxDiskUnit

\* disk_prefix_label + str(disk_num): a prefix and the decimal digits of a
\* number, which differ for different numbers
label_of(disk_prefix_label, disk_num) == <<disk_prefix_label, disk_num>>

\* device.deviceInfo.label of a disk
deviceInfo_label(device) == disk_label[device.key]

\* the labels the disks of a device list carry
Labels(device_list) ==
    {deviceInfo_label(d) : d \in {e \in Elements(device_list) : e.type = "disk"}}

LabelInit == disk_label = [key \in {} |-> <<>>]

\* what VM.remove_disk saw and did: the devices and labels before the call
\* and the key of the device its change-set names
RemoveRecord(disk_num, device, reconfigures, outcome) ==
    [device |-> device, labels_before |-> disk_label]
        @@ DeviceCallRecord("VM.remove_disk", disk_num, reconfigures, outcome)

\* a scan that takes any disk, whatever its label
RECURSIVE RemoveDiskScanAnyLabel(_, _, _)
RemoveDiskScanAnyLabel(device_list, wanted_label, virtual_disk_device) ==
    IF device_list = <<>> THEN virtual_disk_device
    ELSE LET device == Head(device_list)
         IN  RemoveDiskScanAnyLabel(
                 Tail(device_list), wanted_label,
                 IF device.type = "disk" THEN device.key
                 ELSE virtual_disk_device)

\* the loop of VM.remove_disk over config.hardware.device: every VirtualDisk
\* whose label is the wanted one becomes virtual_disk_device
RECURSIVE remove_disk_scan(_, _, _)
remove_disk_scan(device_list, wanted_label, virtual_disk_device) ==
    IF device_list = <<>> THEN virtual_disk_device
    ELSE LET device == Head(device_list)
         IN  remove_disk_scan(
                 Tail(device_list), wanted_label,
                 IF device.type = "disk"
                    /\ deviceInfo_label(device) = wanted_label
                 THEN device.key ELSE virtual_disk_device)

\* the host removes the device with this key and forgets its label
host_remove_device(key, device_list) ==
    LET kept == SelectSeq(device_list, LAMBDA d : d.key # key)
    IN  [i \in 1..Len(kept) |-> [kept[i] EXCEPT !.device = @ \ {key}]]

\* VM.remove_disk(disk_num) of vtools.py: no disk with the label raises
\* RuntimeError; otherwise one ReconfigVM_Task with a remove change-set for
\* the device found, and WaitForTask
VM_remove_disk(disk_num, task_ok) ==
    LET virtual_disk_device ==
            remove_disk_scan(hw_device, label_of("Hard disk ", disk_num), None)
    IN  /\ working_on = "vm"
        /\ IF virtual_disk_device = None
           THEN /\ last_device_call' =
                      RemoveRecord(disk_num, None, 0, "RuntimeError")
                /\ UNCHANGED <<hw_device, disk_label>>
           ELSE /\ last_device_call' =
                      RemoveRecord(disk_num, virtual_disk_device, 1,
                                   IF task_ok THEN "ok" ELSE "TaskError")
                /\ hw_device' =
                      IF task_ok
                      THEN host_remove_device(virtual_disk_device, hw_device)
                      ELSE hw_device
                /\ disk_label' =
                      IF task_ok
                      THEN [key \in DOMAIN disk_label \ {virtual_disk_device}
                              |-> disk_label[key]]
                      ELSE disk_label
        /\ UNCHANGED <<working_on, max_devices, devices, last_used_key,
                       last_used_scsi_bus, last_add>>
        /\ UNCHANGED <<powerVars, editVars, snapshotVars, importVars>>
        /\ UNCHANGED <<createVars, exitVars, queryVars, laterVars>>

\* a disk is added at a free unit of a SCSI controller; the host gives it a
\* label "Hard disk <n>" that no disk of the VM carries
host_adds_hard_disk(controller, unit, ordinal) ==
    LET new_disk == Device(host_disk_key_on(controller.busNumber, unit),
                           "disk", controller.key, unit, None, {})
        with_disk == [i \in 1..Len(hw_device) |->
                        IF hw_device[i].key = controller.key
                        THEN [hw_device[i] EXCEPT
                                !.device = @ \cup {new_disk.key}]
                        ELSE hw_device[i]]
    IN  /\ working_on = "vm"
        /\ host_accepts_disk(controller, unit, hw_device)
        /\ label_of("Hard disk ", ordinal) \notin Labels(hw_device)
        /\ hw_device' = host_insert(new_disk, with_disk)
        /\ disk_label' = (new_disk.key :> label_of("Hard disk ", ordinal))
                            @@ disk_label
        /\ last_device_call' = DeviceCallRecord("other client", None, 0, "ok")
        /\ UNCHANGED <<working_on, max_devices, devices, last_used_key,
                       last_used_scsi_bus, last_add>>
        /\ UNCHANGED <<powerVars, editVars, snapshotVars, importVars>>
        /\ UNCHANGED <<createVars, exitVars, queryVars, laterVars>>

RemoveNext ==
    \/ \E disk_num \in 0..MaxOrdinal, ok \in BOOLEAN :
          VM_remove_disk(disk_num, ok)
    \/ \E c \in Controllers(hw_device), unit \in DiskUnits,
          ordinal \in 1..MaxOrdinal : host_adds_hard_disk(c, unit, ordinal)

\* ---------------------------------------------------------------------------
\* VM creation (vtools/esxi.py VMManager.create, vtools/vm.py
\* CreateVMSpec.create_vm)
\* ---------------------------------------------------------------------------

\* the two create functions
CreateEngines == {"VMManager.create", "CreateVMSpec.create_vm"}

\* task.info.state of a task that has ended
TaskEnded == {"success", "error"}

\* whether the function calls WaitForTask(task) between CreateVm and the read
\* of task.info.result
waits_for_task(engine) == engine = "VMManager.create"

\* task.info.result: the new VM once the task has succeeded, unset before
task_info_result(state, name) == IF state = "success" THEN name ELSE None

NoCreate ==
    [engine |-> "none", name |-> "none", task_at_return |-> "none",
     outcome |-> "none", result |-> None]

CreateInit ==
    /\ create_pc = "idle"
    /\ create_engine = "none"
    /\ create_name = "none"
    /\ task = "none"
    /\ vm_list = <<>>
    /\ last_create = NoCreate

\* VMManager.create(name, ...) / CreateVMSpec.create_vm(name, esxi,
\* datastore) is called
create_call(engine, name) ==
    /\ create_pc \in {"idle", "returned", "raised"}
    /\ create_pc' = "submit"
    /\ create_engine' = engine
    /\ create_name' = name
    /\ task' = "none"
    /\ UNCHANGED <<vm_list, last_create>>
    /\ UNCHANGED <<powerVars, editVars, allocVars, snapshotVars, importVars>>
    /\ UNCHANGED <<labelVars, exitVars, queryVars, laterVars>>

\* task = vm_folder_vim_obj.CreateVm(config_spec, resource_pool, host): the
\* host queues the task and the call returns the task at once
CreateVm ==
    /\ create_pc = "submit"
    /\ task' = "running"
    /\ create_pc' = IF waits_for_task(create_engine) THEN "wait" ELSE "read"
    /\ UNCHANGED <<create_engine, create_name, vm_list, last_create>>
    /\ UNCHANGED <<powerVars, editVars, allocVars, snapshotVars, importVars>>
    /\ UNCHANGED <<labelVars, exitVars, queryVars, laterVars>>

\* the host ends the task: the VM is created unless the task fails or a VM
\* of that name exists
host_ends_task(ok) ==
    LET created == ok /\ create_name \notin Elements(vm_list)
    IN  /\ task = "running"
        /\ task' = IF created THEN "success" ELSE "error"
        /\ vm_list' = IF created THEN Append(vm_list, create_name) ELSE vm_list
        /\ UNCHANGED <<create_pc, create_engine, create_name, last_create>>
        /\ UNCHANGED <<powerVars, editVars, allocVars, snapshotVars, importVars>>
        /\ UNCHANGED <<labelVars, exitVars, queryVars, laterVars>>

\* WaitForTask(task) of VMManager.create: blocks until the task has ended and
\* raises the error of a failed task
create_WaitForTask ==
    /\ create_pc = "wait"
    /\ task \in TaskEnded
    /\ IF WaitForTask_raises(task = "success")
       THEN /\ create_pc' = "raised"
            /\ last_create' = [engine |-> create_engine, name |-> create_name,
                               task_at_return |-> task, outcome |-> "TaskError",
                               result |-> None]
       ELSE /\ create_pc' = "read"
            /\ UNCHANGED last_create
    /\ UNCHANGED <<create_engine, create_name, task, vm_list>>
    /\ UNCHANGED <<powerVars, editVars, allocVars, snapshotVars, importVars>>
    /\ UNCHANGED <<labelVars, exitVars, queryVars, laterVars>>

\* return VM(task.info.result)
create_return ==
    /\ create_pc = "read"
    /\ create_pc' = "returned"
    /\ last_create' = [engine |-> create_engine, name |-> create_name,
                       task_at_return |-> task, outcome |-> "returned",
                       result |-> task_info_result(task, create_name)]
    /\ UNCHANGED <<create_engine, create_name, task, vm_list>>
    /\ UNCHANGED <<powerVars, editVars, allocVars, snapshotVars, importVars>>
    /\ UNCHANGED <<labelVars, exitVars, queryVars, laterVars>>

\* create calls one after another, each on a host that has ended the task of
\* the one before
CreateNext ==
    \/ \E engine \in CreateEngines, name \in VMs :
          task # "running" /\ create_call(engine, name)
    \/ CreateVm
    \/ \E ok \in BOOLEAN : host_ends_task(ok)
    \/ create_WaitForTask
    \/ create_return

\* ---------------------------------------------------------------------------
\* Command exit (vtools/exception.py and vtools/cli/exception.py
\* handle_exceptions; vtools/cli/config.py set_config, connect; the wrapped
\* functions ESXi._login, VMManager.import_ovf, create_import_spec)
\* ---------------------------------------------------------------------------

\* the exception classes the two handlers name, and any other Exception
Exceptions ==
    {"KeyError", "ConnectionRefusedError", "gaierror", "InvalidLogin",
     "InvalidDeviceSpec", "AttributeError", "MissingSchema", "InvalidURL",
     "Exception"}

\* the two decorators and the functions they wrap
Wrapped ==
    {<<"vtools.exception", "ESXi._login">>,
     <<"vtools.exception", "VMManager.import_ovf">>,
     <<"vtools.cli.exception", "create_import_spec">>}

\* what a caller can put into the connection configuration
ConfigIps == {"host", "closed port", "unknown name"}

ConfigUsers == {"root", "nobody"}

ConfigPwds == {"right", "wrong"}

\* sys.exit(arg): the exit status of the process; no argument is None, and
\* None is status 0
sys_exit(arg) == IF arg = None THEN 0 ELSE arg % 256

\* the except clause of vtools/exception.py that takes the exception, by the
\* message it prints
exception_message(exception) ==
    CASE exception = "KeyError" -> "set a config file"
      [] exception \in {"ConnectionRefusedError", "gaierror"} -> "check the network"
      [] exception = "InvalidLogin" -> "set the correct username or password"
      [] exception \in {"MissingSchema", "InvalidURL"} -> "enter a valid url"
      [] OTHER -> "Exception occurred"

\* the same of vtools/cli/exception.py, which also names InvalidDeviceSpec
\* and AttributeError
cli_exception_message(exception) ==
    CASE exception = "InvalidDeviceSpec" -> "fault messages"
      [] exception = "AttributeError" -> "Exception occurred"
      [] OTHER -> exception_message(exception)

\* wrapper(*args, **kwargs) of either decorator: the value of func is
\* returned; an exception is printed by its except clause and the wrapper
\* goes on to sys.exit()
handle_exceptions(wrapper, func, exception) ==
    IF exception = "none"
    THEN [wrapper |-> wrapper, func |-> func, raised |-> exception,
          message |-> "none", exited |-> FALSE, exit_status |-> 0]
    ELSE [wrapper |-> wrapper, func |-> func, raised |-> exception,
          message |-> IF wrapper = "vtools.exception"
                      THEN exception_message(exception)
                      ELSE cli_exception_message(exception),
          exited |-> TRUE, exit_status |-> sys_exit(None)]

\* what SmartConnect does with a configuration
SmartConnect_raises(connection_config) ==
    CASE connection_config.ip = "closed port" -> "ConnectionRefusedError"
      [] connection_config.ip = "unknown name" -> "gaierror"
      [] connection_config.user # "root" \/ connection_config.pwd # "right"
            -> "InvalidLogin"
      [] OTHER -> "none"

\* most commands of one script
MaxCommands == 3

\* a configuration file without a CONNECTION section
NoSection == <<>>

ExitInit ==
    /\ config = NoSection
    /\ exit_log = <<>>

\* vtools-cli config set --ip --user --pwd
set_config(ip, user, pwd) ==
    /\ Len(exit_log) < MaxCommands
    /\ config' = <<[ip |-> ip, user |-> user, pwd |-> pwd]>>
    /\ exit_log' = Append(exit_log, handle_exceptions("none", "set_config", "none"))
    /\ UNCHANGED <<powerVars, editVars, allocVars, snapshotVars, importVars>>
    /\ UNCHANGED <<labelVars, createVars, queryVars, laterVars>>

\* connect() of a command: without a CONNECTION section it prints and calls
\* sys.exit() itself; with one it builds ESXi(ip, user, pwd), whose _login is
\* wrapped by handle_exceptions(); host_fault is a fault of the host that
\* none of the except clauses names
connect(host_fault) ==
    /\ Len(exit_log) < MaxCommands
    /\ exit_log' =
          Append(exit_log,
                 IF config = NoSection
                 THEN [wrapper |-> "none", func |-> "connect",
                       raised |-> "KeyError", message |-> "set a valid config",
                       exited |-> TRUE, exit_status |-> sys_exit(None)]
                 ELSE handle_exceptions(
                          "vtools.exception", "ESXi._login",
                          IF SmartConnect_raises(config[1]) = "none" /\ host_fault
                          THEN "Exception" ELSE SmartConnect_raises(config[1])))
    /\ UNCHANGED config
    /\ UNCHANGED <<powerVars, editVars, allocVars, snapshotVars, importVars>>
    /\ UNCHANGED <<labelVars, createVars, queryVars, laterVars>>

\* a command that has connected calls a wrapped function, which returns or
\* raises
wrapped_call(wrapper, func, exception) ==
    /\ Len(exit_log) < MaxCommands
    /\ config # NoSection
    /\ SmartConnect_raises(config[1]) = "none"
    /\ exit_log' = Append(exit_log, handle_exceptions(wrapper, func, exception))
    /\ UNCHANGED config
    /\ UNCHANGED <<powerVars, editVars, allocVars, snapshotVars, importVars>>
    /\ UNCHANGED <<labelVars, createVars, queryVars, laterVars>>

ExitNext ==
    \/ \E ip \in ConfigIps, user \in ConfigUsers, pwd \in ConfigPwds :
          set_config(ip, user, pwd)
    \/ \E host_fault \in BOOLEAN : connect(host_fault)
    \/ \E w \in Wrapped \ {<<"vtools.exception", "ESXi._login">>},
          exception \in Exceptions \cup {"none"} :
              wrapped_call(w[1], w[2], exception)

\* ---------------------------------------------------------------------------
\* Resource query layer (vtools/query.py)
\* ---------------------------------------------------------------------------

\* most items a collection of the model holds
MaxItems == 3

\* the fields of an item a predicate can look at
ItemFields == {"name", "size"}

\* the values a field takes
FieldValues(field) == IF field = "name" THEN {"a", "b"} ELSE {1, 2}

\* the managed entities of a collection; two entities may agree on every field
Items == [name : FieldValues("name"), size : FieldValues("size")]

\* Python's None where an item is expected
NoItem == [name |-> "None", size |-> 0]

\* condition=None, the default of list
NoCondition == [field |-> "None", accepts |-> {}]

\* by(field, condition): the predicate that applies condition to the field
\* of an item; condition is given by the values it accepts
by(field, condition) == [field |-> field, accepts |-> condition]

\* the predicates of the model
Predicates == UNION {{by(field, condition) : condition \in SUBSET FieldValues(field)} : field \in ItemFields}

\* condition(item)
condition_holds(condition, item) == item[condition.field] \in condition.accepts

\* a lookup that keeps the last item the predicate accepts
RECURSIVE GetLastMatch(_, _)
GetLastMatch(all_items, condition) ==
    IF all_items = <<>> THEN [raised |-> "none", item |-> NoItem]
    ELSE IF condition = NoCondition
    THEN [raised |-> "TypeError", item |-> NoItem]
    ELSE LET rest == GetLastMatch(Tail(all_items), condition)
         IN  IF rest.item # NoItem THEN rest
             ELSE IF condition_holds(condition, Head(all_items))
             THEN [raised |-> "none", item |-> Head(all_items)]
             ELSE rest

\* [item for item in all_items if condition(item)]
RECURSIVE comprehension(_, _)
comprehension(all_items, condition) ==
    IF all_items = <<>> THEN <<>>
    ELSE IF condition_holds(condition, Head(all_items))
    THEN <<Head(all_items)>> \o comprehension(Tail(all_items), condition)
    ELSE comprehension(Tail(all_items), condition)

\* QueryMixin.list(condition): every item when condition is None, else the
\* items the condition accepts, in the order of _list_all()
QueryMixin_list(all_items, condition) ==
    IF condition = NoCondition THEN all_items
    ELSE comprehension(all_items, condition)

\* QueryMixin.get(condition): the first item of _list_all() the condition
\* accepts, None after the last; calling None on an item raises TypeError
RECURSIVE QueryMixin_get(_, _)
QueryMixin_get(all_items, condition) ==
    IF all_items = <<>> THEN [raised |-> "none", item |-> NoItem]
    ELSE IF condition = NoCondition
    THEN [raised |-> "TypeError", item |-> NoItem]
    ELSE IF condition_holds(condition, Head(all_items))
    THEN [raised |-> "none", item |-> Head(all_items)]
    ELSE QueryMixin_get(Tail(all_items), condition)

\* no query yet
NoQuery ==
    [op |-> "none", condition |-> NoCondition, listed |-> <<>>,
     got |-> NoItem, raised |-> "none", before |-> <<>>, after |-> <<>>]

QueryInit ==
    /\ collection = <<>>
    /\ last_query = NoQuery

\* the host gains an entity: _list_all() reads the inventory at each call
host_adds_item(item) ==
    /\ Len(collection) < MaxItems
    /\ collection' = Append(collection, item)
    /\ UNCHANGED last_query
    /\ UNCHANGED <<powerVars, editVars, allocVars, snapshotVars, importVars>>
    /\ UNCHANGED <<labelVars, createVars, exitVars, laterVars>>

\* the host loses an entity
host_drops_item(i) ==
    /\ i \in 1..Len(collection)
    /\ collection' = [j \in 1..(Len(collection) - 1) |->
                         IF j < i THEN collection[j] ELSE collection[j + 1]]
    /\ UNCHANGED last_query
    /\ UNCHANGED <<powerVars, editVars, allocVars, snapshotVars, importVars>>
    /\ UNCHANGED <<labelVars, createVars, exitVars, laterVars>>

\* manager.list(condition)
list_call(condition) ==
    /\ collection' = collection
    /\ last_query' =
          [op |-> "list", condition |-> condition,
           listed |-> QueryMixin_list(collection, condition),
           got |-> NoItem, raised |-> "none",
           before |-> collection, after |-> collection']
    /\ UNCHANGED <<powerVars, editVars, allocVars, snapshotVars, importVars>>
    /\ UNCHANGED <<labelVars, createVars, exitVars, laterVars>>

\* manager.get(condition)
get_call(condition) ==
    /\ collection' = collection
    /\ last_query' =
          [op |-> "get", condition |-> condition,
           listed |-> <<>>,
           got |-> QueryMixin_get(collection, condition).item,
           raised |-> QueryMixin_get(collection, condition).raised,
           before |-> collection, after |-> collection']
    /\ UNCHANGED <<powerVars, editVars, allocVars, snapshotVars, importVars>>
    /\ UNCHANGED <<labelVars, createVars, exitVars, laterVars>>

QueryNext ==
    \/ \E item \in Items : host_adds_item(item)
    \/ \E i \in 1..MaxItems : host_drops_item(i)
    \/ \E condition \in Predicates \cup {NoCondition} : list_call(condition)
    \/ \E condition \in Predicates \cup {NoCondition} : get_call(condition)

\* ---------------------------------------------------------------------------
\* DiskManager.add step by step, for clients that share a VM (vtools/vm.py
\* DiskManager.add; vtools/device.py Controller, Disk.__eq__)
\* ---------------------------------------------------------------------------

\* the scripts that call DiskManager.add on the VM
Clients == {"client1", "client2"}

\* most calls of DiskManager.add one client makes
MaxAddCalls == 2

\* what the steps of DiskManager.add leave alone
raceFrame == <<working_on, max_devices, devices, last_used_key, last_used_scsi_bus, last_add, last_device_call>>

\* no call yet
NoAdd ==
    [outcome |-> "none", committed |-> None, key |-> None,
     controllerKey |-> None, unitNumber |-> None]

\* self.list() of DiskManager: the disks of config.hardware.device, in its order
DiskManager_list_all(device_list) == SelectSeq(device_list, LAMBDA d : d.type = "disk")

\* the keys of a list of disks: Disk.__eq__ compares keys
DiskKeys(disks) == {disks[i].key : i \in 1..Len(disks)}

\* [disk for disk in self.list() if disk not in existing_disks]
unlisted_disks(device_list, existing) ==
    SelectSeq(DiskManager_list_all(device_list), LAMBDA d : d.key \notin existing)

\* the controller of the VM with this key, as the host holds it now
host_controller(key) == CHOOSE c \in Controllers(hw_device) : c.key = key

RaceInit ==
    /\ add_pc = [cl \in Clients |-> "idle"]
    /\ add_calls = [cl \in Clients |-> 0]
    /\ add_controller = [cl \in Clients |-> host_controller(1000)]
    /\ existing_disks = [cl \in Clients |-> {}]
    /\ new_disk_spec = [cl \in Clients |-> [controllerKey |-> None, unitNumber |-> None]]
    /\ add_result = [cl \in Clients |-> NoAdd]
    /\ interfered = [cl \in Clients |-> FALSE]

\* the clients whose call is between its first listing and its return
Running == {cl \in Clients : add_pc[cl] \in {"build", "reconfigure", "relist"}}

\* a change of the devices made by cl, or by no client of the model, reaches
\* every other running call
interfered_by(cl) == [other \in Clients |-> IF other # cl /\ other \in Running THEN TRUE ELSE interfered[other]]

\* a script calls disk_manager.add(size_in_mb, backing, controller) with a
\* Controller it read from the VM, and add begins: existing_disks = self.list()
DiskManager_add_list(cl, controller) ==
    /\ working_on = "vm"
    /\ add_pc[cl] = "idle"
    /\ add_calls[cl] < MaxAddCalls
    /\ add_calls' = [add_calls EXCEPT ![cl] = @ + 1]
    /\ add_controller' = [add_controller EXCEPT ![cl] = controller]
    /\ existing_disks' = [existing_disks EXCEPT ![cl] = DiskKeys(DiskManager_list_all(hw_device))]
    /\ new_disk_spec' = [new_disk_spec EXCEPT ![cl] = [controllerKey |-> None, unitNumber |-> None]]
    /\ add_result' = [add_result EXCEPT ![cl] = NoAdd]
    /\ interfered' = [interfered EXCEPT ![cl] = FALSE]
    /\ add_pc' = [add_pc EXCEPT ![cl] = "build"]
    /\ UNCHANGED hw_device
    /\ UNCHANGED <<raceFrame, nonRace>>
    /\ UNCHANGED <<powerVars, editVars, snapshotVars, importVars>>
    /\ UNCHANGED <<labelVars, createVars, exitVars, queryVars>>

\* new_disk.controllerKey = controller.key; new_disk.unitNumber =
\* controller.next_free_unit, which reads config.hardware.device now and
\* keeps the devices whose key the Controller object lists
DiskManager_add_build(cl) ==
    LET used_units == Controller_get_used_units(add_controller[cl], hw_device)
        unitNumber == next_free_unit(used_units, find_device_option_by_type.devices_max)
        raises     == unitNumber \in {IndexError, TypeError}
    IN  /\ add_pc[cl] = "build"
        /\ new_disk_spec' = [new_disk_spec EXCEPT ![cl] = [controllerKey |-> add_controller[cl].key, unitNumber |-> unitNumber]]
        /\ add_pc' = [add_pc EXCEPT ![cl] = IF raises THEN "idle" ELSE "reconfigure"]
        /\ add_result' = [add_result EXCEPT ![cl] = IF raises THEN [NoAdd EXCEPT !.outcome = "raised"] ELSE @]
        /\ UNCHANGED <<hw_device, add_calls, add_controller, existing_disks, interfered>>
        /\ UNCHANGED <<raceFrame, nonRace>>
        /\ UNCHANGED <<powerVars, editVars, snapshotVars, importVars>>
        /\ UNCHANGED <<labelVars, createVars, exitVars, queryVars>>

\* a submission that reads the devices again and takes a unit that is free now
ReconfigureRevalidated(cl, task_ok) ==
    LET controller == host_controller(new_disk_spec[cl].controllerKey)
        host_unit  == host_free_unit(controller, hw_device)
        accepted   == task_ok /\ host_accepts_disk(controller, host_unit, hw_device)
        disk       == Device(host_disk_key(host_unit), "disk", controller.key, host_unit, None, {})
        with_disk  == [i \in 1..Len(hw_device) |->
                         IF hw_device[i].key = controller.key
                         THEN [hw_device[i] EXCEPT !.device = @ \cup {disk.key}]
                         ELSE hw_device[i]]
    IN  /\ add_pc[cl] = "reconfigure"
        /\ hw_device' = IF accepted THEN host_insert(disk, with_disk) ELSE hw_device
        /\ add_pc' = [add_pc EXCEPT ![cl] = IF accepted THEN "relist" ELSE "idle"]
        /\ add_result' = [add_result EXCEPT ![cl] =
                            IF accepted THEN [@ EXCEPT !.committed = disk.key, !.unitNumber = host_unit]
                            ELSE [NoAdd EXCEPT !.outcome = "TaskError"]]
        /\ interfered' = IF accepted THEN interfered_by(cl) ELSE interfered
        /\ UNCHANGED <<add_calls, add_controller, existing_disks, new_disk_spec>>
        /\ UNCHANGED <<raceFrame, nonRace>>
        /\ UNCHANGED <<powerVars, editVars, snapshotVars, importVars>>
        /\ UNCHANGED <<labelVars, createVars, exitVars, queryVars>>

\* WaitForTask(self.vm.vim_obj.Reconfigure(config_spec)): the change-set built
\* before goes to the host as it is; the host commits it if the unit is free
\* on the controller now (a unit of None: at a unit the host picks), else the
\* task fails and WaitForTask raises
DiskManager_add_Reconfigure(cl, task_ok) ==
    LET controller == host_controller(new_disk_spec[cl].controllerKey)
        unitNumber == new_disk_spec[cl].unitNumber
        host_unit  == IF unitNumber = None
                      THEN host_free_unit(controller, hw_device)
                      ELSE unitNumber
        accepted   == task_ok /\ host_accepts_disk(controller, host_unit, hw_device)
        disk       == Device(host_disk_key(host_unit), "disk", controller.key, host_unit, None, {})
        with_disk  == [i \in 1..Len(hw_device) |->
                         IF hw_device[i].key = controller.key
                         THEN [hw_device[i] EXCEPT !.device = @ \cup {disk.key}]
                         ELSE hw_device[i]]
    IN  /\ add_pc[cl] = "reconfigure"
        /\ hw_device' = IF accepted THEN host_insert(disk, with_disk) ELSE hw_device
        /\ add_pc' = [add_pc EXCEPT ![cl] = IF accepted THEN "relist" ELSE "idle"]
        /\ add_result' = [add_result EXCEPT ![cl] =
                            IF accepted THEN [@ EXCEPT !.committed = disk.key, !.unitNumber = host_unit]
                            ELSE [NoAdd EXCEPT !.outcome = "TaskError"]]
        /\ interfered' = IF accepted THEN interfered_by(cl) ELSE interfered
        /\ UNCHANGED <<add_calls, add_controller, existing_disks, new_disk_spec>>
        /\ UNCHANGED <<raceFrame, nonRace>>
        /\ UNCHANGED <<powerVars, editVars, snapshotVars, importVars>>
        /\ UNCHANGED <<labelVars, createVars, exitVars, queryVars>>

\* new_disks = [disk for disk in self.list() if disk not in existing_disks];
\* return new_disks[0]
DiskManager_add_return(cl) ==
    LET new_disks == unlisted_disks(hw_device, existing_disks[cl])
    IN  /\ add_pc[cl] = "relist"
        /\ add_pc' = [add_pc EXCEPT ![cl] = "idle"]
        /\ add_result' = [add_result EXCEPT ![cl] =
                            IF new_disks = <<>>
                            THEN [@ EXCEPT !.outcome = "IndexError"]
                            ELSE [outcome |-> "ok", committed |-> @.committed,
                                  key |-> new_disks[1].key,
                                  controllerKey |-> new_disks[1].controllerKey,
                                  unitNumber |-> new_disks[1].unitNumber]]
        /\ UNCHANGED <<hw_device, add_calls, add_controller, existing_disks, new_disk_spec, interfered>>
        /\ UNCHANGED <<raceFrame, nonRace>>
        /\ UNCHANGED <<powerVars, editVars, snapshotVars, importVars>>
        /\ UNCHANGED <<labelVars, createVars, exitVars, queryVars>>

\* some client of the host removes a disk of the VM
other_client_removes_disk(disk) ==
    /\ working_on = "vm"
    /\ hw_device' =
         LET kept == SelectSeq(hw_device, LAMBDA d : d.key # disk.key)
         IN  [i \in 1..Len(kept) |-> [kept[i] EXCEPT !.device = @ \ {disk.key}]]
    /\ interfered' = [other \in Clients |-> IF other \in Running THEN TRUE ELSE interfered[other]]
    /\ UNCHANGED <<add_pc, add_calls, add_controller, existing_disks, new_disk_spec, add_result>>
    /\ UNCHANGED <<raceFrame, nonRace>>
    /\ UNCHANGED <<powerVars, editVars, snapshotVars, importVars>>
    /\ UNCHANGED <<labelVars, createVars, exitVars, queryVars>>

RaceNext ==
    \/ \E cl \in Clients, c \in Controllers(hw_device) : DiskManager_add_list(cl, c)
    \/ \E cl \in Clients : DiskManager_add_build(cl)
    \/ \E cl \in Clients, ok \in BOOLEAN : DiskManager_add_Reconfigure(cl, ok)
    \/ \E cl \in Clients : DiskManager_add_return(cl)
    \/ \E c \in Controllers(hw_device) : \E d \in DisksOn(hw_device, c.key) : other_client_removes_disk(d)

\* ---------------------------------------------------------------------------
\* VM deletion (vtools/esxi.py VMManager.delete; vtools.py ESXi.delete_vm)
\* ---------------------------------------------------------------------------

\* the two delete functions
DeleteEngines == {"VMManager.delete", "ESXi.delete_vm"}

\* most delete calls of one run of the model
MaxDeletes == 2

\* format(vm.vim_obj.runtime.powerState) != "poweredOff"
needs_power_off(state) == state # "poweredOff"

DeleteInit ==
    /\ delete_pc = "idle"
    /\ delete_engine = "VMManager.delete"
    /\ delete_read = NoState
    /\ delete_calls = <<>>
    /\ power_off_task = "none"
    /\ vm_registered = TRUE
    /\ deletes = 0

\* delete(vm) / delete_vm(vm) is called and reads the power state
delete_call(engine) ==
    /\ delete_pc \in {"idle", "done", "raised"}
    /\ vm_registered
    /\ deletes < MaxDeletes
    /\ deletes' = deletes + 1
    /\ delete_engine' = engine
    /\ delete_read' = power_state
    /\ delete_calls' = <<>>
    /\ power_off_task' = "none"
    /\ delete_pc' = IF needs_power_off(power_state) THEN "power_off" ELSE "destroy"
    /\ UNCHANGED vm_registered
    /\ UNCHANGED <<powerVars, editVars, allocVars, snapshotVars, importVars>>
    /\ UNCHANGED <<labelVars, createVars, exitVars, queryVars, nonDelete>>

\* a delete that goes on to Destroy whatever became of the power-off task
DeletePowerOffIgnoresFailure(task_ok) ==
    /\ delete_pc = "power_off"
    /\ delete_calls' = Append(delete_calls, "PowerOffVM_Task")
    /\ power_off_task' = IF task_ok THEN "success" ELSE "error"
    /\ delete_pc' = "destroy"
    /\ power_state' = IF task_ok THEN "poweredOff" ELSE power_state
    /\ state_changed' = (state_changed \/ (task_ok /\ power_state # "poweredOff"))
    /\ UNCHANGED <<delete_engine, delete_read, vm_registered, deletes>>
    /\ UNCHANGED <<host_pending, pc, expected_state, attempt_number, submitted, raised, poll_reads, current_power_state, submitted_at_poll, started_at_target>>
    /\ UNCHANGED <<editVars, allocVars, snapshotVars, importVars>>
    /\ UNCHANGED <<labelVars, createVars, exitVars, queryVars, nonDelete>>

\* power_off_task = vm.vim_obj.PowerOffVM_Task(); WaitForTask(power_off_task):
\* the task succeeds and the VM is poweredOff, or it fails and WaitForTask
\* raises out of the delete
delete_power_off(task_ok) ==
    /\ delete_pc = "power_off"
    /\ delete_calls' = Append(delete_calls, "PowerOffVM_Task")
    /\ power_off_task' = IF task_ok THEN "success" ELSE "error"
    /\ delete_pc' = IF WaitForTask_raises(task_ok) THEN "raised" ELSE "destroy"
    /\ power_state' = IF task_ok THEN "poweredOff" ELSE power_state
    /\ state_changed' = (state_changed \/ (task_ok /\ power_state # "poweredOff"))
    /\ UNCHANGED <<delete_engine, delete_read, vm_registered, deletes>>
    /\ UNCHANGED <<host_pending, pc, expected_state, attempt_number, submitted, raised, poll_reads, current_power_state, submitted_at_poll, started_at_target>>
    /\ UNCHANGED <<editVars, allocVars, snapshotVars, importVars>>
    /\ UNCHANGED <<labelVars, createVars, exitVars, queryVars, nonDelete>>

\* vm_destroy_task = vm.vim_obj.Destroy(); WaitForTask(vm_destroy_task): the
\* host destroys a VM that is poweredOff, else the task fails
delete_destroy(task_ok) ==
    LET destroyed == task_ok /\ power_state = "poweredOff"
    IN  /\ delete_pc = "destroy"
        /\ delete_calls' = Append(delete_calls, "Destroy")
        /\ delete_pc' = IF WaitForTask_raises(destroyed) THEN "raised" ELSE "done"
        /\ vm_registered' = ~destroyed
        /\ UNCHANGED <<delete_engine, delete_read, power_off_task, deletes>>
        /\ UNCHANGED <<powerVars, editVars, allocVars, snapshotVars, importVars>>
        /\ UNCHANGED <<labelVars, createVars, exitVars, queryVars, nonDelete>>

\* another client of the host changes the power state of the VM
delete_other_client_power(s) ==
    /\ vm_registered
    /\ pc = "idle"
    /\ other_client_power(s)

\* another client of the host creates a VM of the same name, poweredOff
other_client_creates_vm ==
    /\ ~vm_registered
    /\ vm_registered' = TRUE
    /\ power_state' = "poweredOff"
    /\ state_changed' = (state_changed \/ power_state # "poweredOff")
    /\ UNCHANGED <<delete_pc, delete_engine, delete_read, delete_calls, power_off_task, deletes>>
    /\ UNCHANGED <<host_pending, pc, expected_state, attempt_number, submitted, raised, poll_reads, current_power_state, submitted_at_poll, started_at_target>>
    /\ UNCHANGED <<editVars, allocVars, snapshotVars, importVars>>
    /\ UNCHANGED <<labelVars, createVars, exitVars, queryVars, nonDelete>>

DeleteNext ==
    \/ \E engine \in DeleteEngines : delete_call(engine)
    \/ \E ok \in BOOLEAN : delete_power_off(ok)
    \/ \E ok \in BOOLEAN : delete_destroy(ok)
    \/ \E s \in PowerState : delete_other_client_power(s)
    \/ other_client_creates_vm

\* ---------------------------------------------------------------------------
\* Power commands of cli.py (power_on, power_off, suspend) over VM.power_on /
\* power_off / suspend of vtools.py
\* ---------------------------------------------------------------------------

\* most commands of one run of the model
MaxCliCommands == 3

\* the task of a power call ends in success when the VM is in a state the
\* host lets the call start from
host_accepts_power(call, state) ==
    IF call = "PowerOn" THEN state # "poweredOn"
    ELSE IF call = "PowerOff" THEN state # "poweredOff"
    ELSE state = "poweredOn"

\* the state a power call leaves the VM in
power_call_target(call) ==
    IF call = "PowerOn" THEN "poweredOn"
    ELSE IF call = "PowerOff" THEN "poweredOff"
    ELSE "suspended"

\* the test of power_on: format(runtime.powerState) != "poweredOn" prints
\* "is already powered on"; the else branch calls vm_obj.power_on()
power_on_submits(state) == ~(state # "poweredOn")

\* the test of power_off: != "poweredOff" calls vm_obj.power_off()
power_off_submits(state) == state # "poweredOff"

\* the test of suspend: == "poweredOn" calls vm_obj.suspend()
suspend_submits(state) == state = "poweredOn"

CliInit == cli_log = <<>>

\* one command: the test on the state read, then either the message of the
\* branch that submits nothing, or WaitForTask(self.vim_obj.<call>()) and
\* the message after it (nothing is printed when WaitForTask raises)
cli_command(command, call, submits, done_message, else_message, task_ok) ==
    LET accepted == task_ok /\ host_accepts_power(call, power_state)
    IN  /\ Len(cli_log) < MaxCliCommands
        /\ cli_log' = Append(cli_log,
              [command |-> command, read |-> power_state,
               submitted |-> IF submits THEN call ELSE "none",
               message |-> IF ~submits THEN else_message
                           ELSE IF accepted THEN done_message ELSE "none",
               outcome |-> IF ~submits \/ accepted THEN "ok" ELSE "TaskError"])
        /\ power_state' = IF submits /\ accepted THEN power_call_target(call)
                          ELSE power_state
        /\ state_changed' = (state_changed \/ (submits /\ accepted))
        /\ UNCHANGED <<host_pending, pc, expected_state, attempt_number, submitted, raised, poll_reads, current_power_state, submitted_at_poll, started_at_target>>
        /\ UNCHANGED <<editVars, allocVars, snapshotVars, importVars>>
        /\ UNCHANGED <<labelVars, createVars, exitVars, queryVars, nonCli>>

\* power_on(name) of cli.py
cli_power_on(task_ok) ==
    cli_command("power_on", "PowerOn", power_on_submits(power_state), "Powered On", "is already powered on", task_ok)

\* power_off(name) of cli.py
cli_power_off(task_ok) ==
    cli_command("power_off", "PowerOff", power_off_submits(power_state), "Powered Off", "is not powered off", task_ok)

\* suspend(name) of cli.py
cli_suspend(task_ok) ==
    cli_command("suspend", "Suspend", suspend_submits(power_state), "Suspended", "is not powered on", task_ok)

\* another client of the host changes the power state between two commands
cli_other_client_power(s) ==
    /\ pc = "idle"
    /\ other_client_power(s)

CliNext ==
    \/ \E ok \in BOOLEAN : cli_power_on(ok)
    \/ \E ok \in BOOLEAN : cli_power_off(ok)
    \/ \E ok \in BOOLEAN : cli_suspend(ok)
    \/ \E s \in PowerState : cli_other_client_power(s)

\* ---------------------------------------------------------------------------
\* CreateVMSpec as objects: vim_config_spec and create_vm (vtools/vm.py)
\* ---------------------------------------------------------------------------

\* most devices of the spec in this scenario
MaxSpecDevices == 3

\* most create_vm calls on the spec
MaxCreateVmCalls == 2

\* datastore.name of the datastores a script passes to create_vm
DatastoreNames == {"ds1", "ds2"}

\* backing.fileName of the disks a script adds: empty, blank, or a path
FileNames == {"", " ", "[ds2] appliance.vmdk"}

\* not device_backing.fileName or device_backing.fileName.isspace()
fileName_unset(fileName) == fileName \in {"", " "}

\* a device spec object: the device and its backing (a controller has none)
DeviceSpec(device, file_backing, fileName) ==
    [device |-> device, file_backing |-> file_backing, fileName |-> fileName]

\* the objects a list of references points to
Deref(h, refs) == [i \in 1..Len(refs) |-> h[refs[i]]]

\* a copy that shares the device specs with the list it copies
ShallowCopy(h, refs) == [heap |-> h, refs |-> refs]

\* copy.deepcopy(self.devices): new objects equal to the ones referred to,
\* and a list of references to them
copy_deepcopy(h, refs) ==
    [heap |-> h \o Deref(h, refs),
     refs |-> [i \in 1..Len(refs) |-> Len(h) + i]]

\* the loop of create_vm over config_spec.deviceChange: a file backing whose
\* fileName is unset gets "[<datastore.name>]"
fill_fileName(h, refs, datastore_name) ==
    [r \in 1..Len(h) |->
        IF /\ \E i \in 1..Len(refs) : refs[i] = r
           /\ h[r].file_backing
           /\ fileName_unset(h[r].fileName)
        THEN [h[r] EXCEPT !.fileName = "[" \o datastore_name \o "]"]
        ELSE h[r]]

CopyInit ==
    /\ heap = <<>>
    /\ device_refs = <<>>
    /\ create_vm_log = <<>>

\* CreateVMSpec.add_scsi_controller, with _add_device putting the new object
\* into self.devices
spec_add_scsi_controller ==
    LET new_controller == WithBusNumber(Device(get_next_free_key, "scsi", None, None, None, {}), get_next_free_scsi_bus)
    IN  /\ working_on = "create_vm_spec"
        /\ Len(device_refs) < MaxSpecDevices
        /\ Controllers(devices) = {}
        /\ last_used_key' = get_next_free_key
        /\ last_used_scsi_bus' = get_next_free_scsi_bus
        /\ devices' = Append(devices, new_controller)
        /\ heap' = Append(heap, DeviceSpec(new_controller, FALSE, ""))
        /\ device_refs' = Append(device_refs, Len(heap) + 1)
        /\ UNCHANGED create_vm_log
        /\ UNCHANGED <<working_on, max_devices, hw_device, last_add, last_device_call>>
        /\ UNCHANGED <<powerVars, editVars, snapshotVars, importVars>>
        /\ UNCHANGED <<labelVars, createVars, exitVars, queryVars, nonCopy>>

\* CreateVMSpec.add_disk(size_in_mb, backing, controller) with a file backing
\* of the given fileName
spec_add_disk(controller, fileName) ==
    LET used_units == CreateVMSpec_get_used_units(controller, devices)
        unitNumber == next_free_unit(used_units, find_device_option_by_type.devices_max)
        disk == [busNumber |-> None] @@ Device(get_next_free_key, "disk", controller.key, unitNumber, None, {})
    IN  /\ working_on = "create_vm_spec"
        /\ Len(device_refs) < MaxSpecDevices
        /\ unitNumber \notin {IndexError, TypeError}
        /\ last_used_key' = get_next_free_key
        /\ devices' = Append(devices, disk)
        /\ heap' = Append(heap, DeviceSpec(disk, TRUE, fileName))
        /\ device_refs' = Append(device_refs, Len(heap) + 1)
        /\ UNCHANGED create_vm_log
        /\ UNCHANGED <<working_on, max_devices, hw_device, last_used_scsi_bus, last_add, last_device_call>>
        /\ UNCHANGED <<powerVars, editVars, snapshotVars, importVars>>
        /\ UNCHANGED <<labelVars, createVars, exitVars, queryVars, nonCopy>>

\* CreateVMSpec.create_vm(name, esxi, datastore): config_spec.deviceChange is
\* the deep copy made by vim_config_spec, the unset file names in it are
\* filled, and CreateVm is submitted with it; config_spec is a local, so the
\* copies are gone after the call
spec_create_vm(datastore_name) ==
    LET copied == copy_deepcopy(heap, device_refs)
        filled == fill_fileName(copied.heap, copied.refs, datastore_name)
    IN  /\ working_on = "create_vm_spec"
        /\ device_refs # <<>>
        /\ Len(create_vm_log) < MaxCreateVmCalls
        /\ UNCHANGED allocVars
        /\ heap' = SubSeq(filled, 1, Len(heap))
        /\ create_vm_log' = Append(create_vm_log,
              [datastore |-> datastore_name,
               deviceChange |-> Deref(filled, copied.refs),
               devices_before |-> Deref(heap, device_refs),
               devices_after |-> Deref(heap', device_refs),
               key_before |-> last_used_key,
               key_after |-> last_used_key',
               bus_before |-> last_used_scsi_bus,
               bus_after |-> last_used_scsi_bus'])
        /\ UNCHANGED device_refs
        /\ UNCHANGED <<powerVars, editVars, snapshotVars, importVars>>
        /\ UNCHANGED <<labelVars, createVars, exitVars, queryVars, nonCopy>>

CopyNext ==
    \/ spec_add_scsi_controller
    \/ \E c \in Controllers(devices), fileName \in FileNames : spec_add_disk(c, fileName)
    \/ \E datastore_name \in DatastoreNames : spec_create_vm(datastore_name)

Init ==
    /\ PowerInit /\ EditInit /\ AllocInit /\ SnapshotInit /\ ImportInit
    /\ LabelInit /\ CreateInit /\ ExitInit /\ QueryInit
    /\ RaceInit /\ DeleteInit /\ CliInit /\ CopyInit

\* the same, for the commands that touch no device: one VM, one capability
InitNoDevices == Init /\ working_on = "vm" /\ max_devices = MaxDevices

Spec == InitNoDevices /\ [][PowerNext]_vars

SpecEdit == InitNoDevices /\ [][EditNext]_vars

SpecAlloc == Init /\ [][AllocNext]_vars

SpecSnapshot == InitNoDevices /\ [][SnapshotNext]_vars

SpecTree == InitNoDevices /\ [][TreeNext]_vars

SpecImport == InitNoDevices /\ [][ImportNext]_vars

\* a VM on the host or an empty CreateVMSpec, one controller capability
InitBus == Init /\ max_devices = SmallMaxDevices

SpecBus == InitBus /\ [][BusNext]_vars

\* most disks the VM of the reconfiguration scenario gets
MaxReconfigureDisks == 2

\* the hardware reconfiguration operations of vtools/vm.py on one VM that
\* gets disks on its first controller and one more controller
ReconfigureNext ==
    \/ \E ok \in BOOLEAN : cpu_number_set(MaxCpu, ok)
    \/ \E ok \in BOOLEAN : cores_per_socket_set(MaxCpu, ok)
    \/ \E v \in MemoryValues, ok \in BOOLEAN : size_in_mb_set(v, ok)
    \/ \E s \in {"poweredOn", "poweredOff"} : power_state_changes(s)
    \/ \E c \in Controllers(hw_device), ok \in BOOLEAN :
          /\ c.busNumber = 0
          /\ Cardinality(DisksOn(hw_device, c.key)) < MaxReconfigureDisks
          /\ DiskManager_add(c, ok)
    \/ \E c \in Controllers(hw_device) :
          \E d \in DisksOn(hw_device, c.key), ok \in BOOLEAN :
              DiskManager_remove(d, ok)
    \/ \E ok \in BOOLEAN :
          /\ Cardinality(Controllers(hw_device)) = 1
          /\ ScsiControllerManager_add(ok)

\* a VM with its first controller, edited through the managers
InitReconfigure == InitBus /\ working_on = "vm"

SpecReconfigure == InitReconfigure /\ [][ReconfigureNext]_vars

\* one step of a running power call: an attempt of the invocation loop or of
\* the confirmation poll
PowerCallStep ==
    \/ invoke_noop
    \/ invoke_raises
    \/ \E lag \in BOOLEAN : invoke_succeeds(lag)
    \/ poll_attempt

\* one step of a running import
ImportStep ==
    \/ \E ok \in BOOLEAN : requests_get(ok)
    \/ \E manifest \in Manifests, ok \in BOOLEAN : CreateImportSpec(manifest, ok)
    \/ \E ok \in BOOLEAN : ImportVApp(ok)
    \/ \E state \in LeaseState : wait_until_http_nfc_lease_ready(state)
    \/ \E ok \in BOOLEAN : deploy_vm_with_pull_mode(ok)
    \/ \E ok \in BOOLEAN : Complete(ok)

\* one process runs power commands or imports, one call at a time
LiveNext ==
    \/ import_pc = "idle" /\ PowerNext
    \/ pc = "idle" /\ ImportNext

\* the process is not stopped: tenacity sleeps its fixed wait and makes the
\* next attempt, and WaitForTask returns because every task ends
SpecLive ==
    /\ InitNoDevices
    /\ [][LiveNext]_vars
    /\ WF_vars(PowerCallStep)
    /\ WF_vars(ImportStep)

SpecCreate == InitNoDevices /\ [][CreateNext]_vars

SpecExit == InitNoDevices /\ [][ExitNext]_vars

SpecQuery == InitNoDevices /\ [][QueryNext]_vars

SpecDelete == InitNoDevices /\ [][DeleteNext]_vars

SpecCli == InitNoDevices /\ [][CliNext]_vars

\* a script that builds a CreateVMSpec and calls create_vm on it
InitCopy == Init /\ working_on = "create_vm_spec" /\ max_devices = MaxDevices

SpecCopy == InitCopy /\ [][CopyNext]_vars

\* disks added through VM.add_disk of vtools.py and removed again, on the VM
\* with its one SCSI controller
LegacyDiskNext ==
    \/ \E ok \in BOOLEAN : VM_add_disk(ok)
    \/ \E c \in Controllers(hw_device) :
          \E d \in DisksOn(hw_device, c.key), ok \in BOOLEAN :
              DiskManager_remove(d, ok)

SpecLegacyDisk == InitNoDevices /\ [][LegacyDiskNext]_vars

\* a VM with one SCSI controller that several scripts add disks to
InitRace == Init /\ working_on = "vm" /\ max_devices = SmallMaxDevices

SpecRace == InitRace /\ [][RaceNext]_vars

\* a VM on the host whose disks carry labels
InitRemove == Init /\ working_on = "vm" /\ max_devices = SmallMaxDevices

SpecRemove == InitRemove /\ [][RemoveNext]_vars

\* ---------------------------------------------------------------------------
\* Power transitions: claims
\* ---------------------------------------------------------------------------

PowerFailed == pc \in {"failed_invoke", "failed_wait"}

\* C1: a power call that starts with the VM already reporting the target
\* state, and whose VM keeps reporting it, submits no PowerOn / PowerOff /
\* Suspend call and does not raise.
C1_AlreadyInStateIsNoOp ==
    (started_at_target /\ ~state_changed) => (submitted = 0 /\ ~PowerFailed)

C1_Witness ==
    /\ pc = "done"
    /\ started_at_target
    /\ ~state_changed
    /\ submitted = 0
    /\ poll_reads = 1

\* C2: a power call returns normally only if the last read of the
\* confirmation poll equals the target state.
C2_SuccessMeansConfirmed ==
    pc = "done" => current_power_state = expected_state

C2_Witness ==
    /\ pc = "done"
    /\ submitted = 1
    /\ poll_reads > 1
    /\ current_power_state = expected_state

\* C3: within one power call the mutating call is submitted at most 12
\* times; if all 12 attempts raise the call fails and the confirmation poll
\* is never started.
C3_InvokeBoundedRetry ==
    /\ submitted <= InvokeMaxAttempts
    /\ attempt_number <= InvokeMaxAttempts
    /\ raised = InvokeMaxAttempts => (pc = "failed_invoke" /\ poll_reads = 0)
    /\ pc = "failed_invoke" => (raised = InvokeMaxAttempts /\ poll_reads = 0)

C3_Witness ==
    /\ pc = "failed_invoke"
    /\ raised = InvokeMaxAttempts
    /\ submitted = InvokeMaxAttempts
    /\ poll_reads = 0

\* C4: the confirmation poll reads the power state at most 60 times, goes on
\* only while the last read mismatches, fails the call when all 60 reads
\* mismatch, and never submits a PowerOn / PowerOff / Suspend call.
C4_PollBoundedNoResubmit ==
    /\ poll_reads <= PollMaxAttempts
    /\ pc = "wait" => (current_power_state # expected_state
                       /\ poll_reads < PollMaxAttempts)
    /\ pc = "failed_wait" <=> (poll_reads = PollMaxAttempts
                               /\ current_power_state # expected_state)
    /\ pc \in {"wait", "done", "failed_wait"} => submitted = submitted_at_poll

C4_Witness ==
    /\ pc = "failed_wait"
    /\ poll_reads = PollMaxAttempts
    /\ submitted = 1
    /\ current_power_state # expected_state

\* ---------------------------------------------------------------------------
\* CPU / memory edits: claims
\* ---------------------------------------------------------------------------

\* C5: an edit of CPU count, cores-per-socket or memory size (the three
\* setters and VMManager.edit) made while the VM is not poweredOff fails with
\* the invalid-state condition, submits no Reconfigure task and leaves the
\* hardware configuration unchanged.
C5_EditFailsWithInvalidState ==
    (last_edit.op # "none" /\ last_edit.power # "poweredOff") =>
        /\ last_edit.outcome = "InvalidStateError"
        /\ last_edit.reconfigures = 0
        /\ hardware = last_edit.before

\* What holds of every such edit: it is refused before any Reconfigure and
\* the hardware is unchanged; the setters raise InvalidStateError, while
\* VMManager.edit prints a message and leaves through sys.exit().
EditRefusedWithoutReconfigure ==
    (last_edit.op # "none" /\ last_edit.power # "poweredOff") =>
        /\ last_edit.outcome \in {"InvalidStateError", "SystemExit"}
        /\ (last_edit.outcome = "SystemExit" <=> last_edit.op = "edit")
        /\ last_edit.reconfigures = 0
        /\ hardware = last_edit.before

SetterRefused ==
    /\ last_edit.op = "size_in_mb"
    /\ last_edit.power = "suspended"
    /\ last_edit.outcome = "InvalidStateError"
    /\ last_edit.reconfigures = 0
    /\ hardware.numCPU = 2
    /\ hardware = last_edit.before

\* ---------------------------------------------------------------------------
\* Device allocation: claims
\* ---------------------------------------------------------------------------

\* the unit numbers 0 .. n-1 and nothing else
Contiguous(units) == units = 0..(Cardinality(units) - 1)

\* the last disk call was an add (DiskManager.add or CreateVMSpec.add_disk)
AddRan == last_add.engine \in {"DiskManager", "CreateVMSpec"}

\* a disk add has run and its allocation yielded a unit number
AllocatedUnit == AddRan /\ last_add.unit >= 0

\* what the allocation found occupied: the attached disks' units and the
\* controller's own SCSI target number
Occupied == last_add.used_before \cup {ScsiCtlrUnitNumber}

NumberedDisksOn(device_list, key) ==
    {d \in DisksOn(device_list, key) : d.unitNumber # None}

UnitsDistinct(device_list) ==
    \A c \in Controllers(device_list) :
        \A d1 \in NumberedDisksOn(device_list, c.key) :
            /\ d1.unitNumber # ScsiCtlrUnitNumber
            /\ \A d2 \in NumberedDisksOn(device_list, c.key) :
                   d1 # d2 => d1.unitNumber # d2.unitNumber

\* C8: no disk add assigns the controller's own SCSI target number 7 or a
\* unit that an attached disk occupies; no disk of the VM or of the batch
\* sits on unit 7, and no two disks of one controller share a unit number.
C8_NoReservedNoDuplicateUnit ==
    /\ AllocatedUnit => last_add.unit \notin Occupied
    /\ UnitsDistinct(hw_device)
    /\ UnitsDistinct(devices)

C8_Witness ==
    /\ last_add.engine = "DiskManager"
    /\ last_add.used_before = {0, 1, 2, 4, 5, 6, 8}
    /\ last_add.unit = 3
    /\ last_add.added
    /\ Cardinality(DisksOn(hw_device, 1000)) = 8

\* C9 as stated: a disk add on a controller that is at its maximum device
\* count fails with a capacity-exceeded condition, submits no Reconfigure
\* task and adds no disk to the VM or to the batch.
C9_FullControllerRefusesAdd ==
    (AddRan /\ last_add.len_before >= max_devices) =>
        /\ last_add.outcome = "CapacityExceeded"
        /\ last_add.reconfigures = 0
        /\ ~last_add.added

\* ---------------------------------------------------------------------------
\* Snapshots: claims
\* ---------------------------------------------------------------------------

CreateRan ==
    last_snapshot_call.op \in {"SnapshotManager.create", "VM.create_snapshot"}

\* C10 as stated: a snapshot creation is rejected, with no CreateSnapshot
\* call, when the requested name already exists anywhere in that VM's
\* snapshot tree; a same-named snapshot of another VM never causes the
\* rejection.
C10_DuplicateNameRejected ==
    CreateRan =>
        /\ last_snapshot_call.existed =>
               (last_snapshot_call.outcome = "rejected"
                /\ last_snapshot_call.create_calls = 0)
        /\ ~last_snapshot_call.existed =>
               last_snapshot_call.outcome # "rejected"

\* ---------------------------------------------------------------------------
\* Snapshot tree: traversal, revert and delete claims
\* ---------------------------------------------------------------------------

\* the number of nodes of a forest
RECURSIVE NodeCount(_)
NodeCount(forest) ==
    IF forest = <<>> THEN 0
    ELSE 1 + NodeCount(Head(forest).childSnapshotList) + NodeCount(Tail(forest))

\* the identifiers of the nodes of a forest
RECURSIVE IdsIn(_)
IdsIn(forest) ==
    IF forest = <<>> THEN {}
    ELSE {Head(forest).snapshot} \cup IdsIn(Head(forest).childSnapshotList)
         \cup IdsIn(Tail(forest))

\* the position of a snapshot in a flattened list
PositionOf(flat, id) == CHOOSE k \in 1..Len(flat) : flat[k].snapshot = id

\* the members of a sibling list appear in the flattened list in their order
KeepsOrder(flat, siblings) ==
    \A a, b \in 1..Len(siblings) :
        a < b => PositionOf(flat, siblings[a].snapshot)
                     < PositionOf(flat, siblings[b].snapshot)

\* the flattened list is the pre-order traversal of the forest
IsPreOrder(forest, flat) ==
    /\ Len(flat) = NodeCount(forest)
    /\ {flat[k].snapshot : k \in 1..Len(flat)} = IdsIn(forest)
    /\ \A i, j \in 1..Len(flat) :
          flat[j].snapshot \in IdsIn(flat[i].childSnapshotList) => i < j
    /\ KeepsOrder(flat, forest)
    /\ \A i \in 1..Len(flat) : KeepsOrder(flat, flat[i].childSnapshotList)

\* C11: flatten_snapshot_tree over every snapshot forest the host can report
\* lists every node exactly once (the length is the node count), every parent
\* before all of its descendants, siblings and root trees in their listed
\* order.
C11_FlattenIsPreOrder ==
    \A vm \in VMs :
        IsPreOrder(snapshot[vm].rootSnapshotList,
                   flatten_snapshot_tree(snapshot[vm].rootSnapshotList))

\* a forest of depth 3 with branching: 1 has the children 2 and 4, 2 has 3
C11_Witness ==
    LET forest == snapshot["vm1"].rootSnapshotList
        flat == flatten_snapshot_tree(forest)
    IN  /\ forest = <<SnapshotTree(1, "s1",
                        <<SnapshotTree(2, "s1", <<SnapshotTree(3, "s1", <<>>)>>),
                          SnapshotTree(4, "s1", <<>>)>>)>>
        /\ [k \in 1..Len(flat) |-> flat[k].snapshot] = <<1, 2, 3, 4>>

\* the last call was a revert or delete through the current API
TreeCallRan == last_tree_call.op \in {"revert", "delete"}

\* C12: VM.revert_to_snapshot and SnapshotManager.delete, given a snapshot
\* whose parent VM is not the calling VM, raise InvalidStateError, make no
\* Revert or Remove call and leave every VM's snapshot tree unchanged.
C12_ForeignSnapshotRefused ==
    (TreeCallRan /\ last_tree_call.owner # last_tree_call.vm) =>
        /\ last_tree_call.outcome = "InvalidStateError"
        /\ last_tree_call.host_calls = 0
        /\ snapshot = last_tree_call.before

C12_Witness ==
    /\ last_tree_call.op = "delete"
    /\ last_tree_call.vm = "vm2"
    /\ last_tree_call.owner = "vm1"
    /\ last_tree_call.outcome = "InvalidStateError"
    /\ last_tree_call.host_calls = 0
    /\ snapshot = last_tree_call.before
    /\ snapshot["vm1"].rootSnapshotList # <<>>

\* the last call asked the host to remove a snapshot, and the host did
RemoveDone ==
    /\ last_tree_call.op \in {"delete", "destroy_snapshot"}
    /\ last_tree_call.outcome = "ok"

\* the flattened identifiers of a VM's tree in a snapshot map
FlatIds(info) ==
    LET flat == flatten_snapshot_tree(info.rootSnapshotList)
    IN  [k \in 1..Len(flat) |-> flat[k].snapshot]

\* a sequence without one of its values
Without(seq, x) == SelectSeq(seq, LAMBDA y : y # x)

\* C13: every snapshot delete asks for a non-cascading removal, and a
\* completed delete takes exactly the deleted node out of the VM's flattened
\* snapshot list: every other node, each descendant included, stays, and no
\* other VM's tree changes.
C13_DeleteDoesNotCascade ==
    /\ last_tree_call.host_calls > 0 /\ last_tree_call.op # "revert"
          => ~last_tree_call.remove_children
    /\ RemoveDone =>
          /\ FlatIds(snapshot[last_tree_call.owner])
               = Without(FlatIds(last_tree_call.before[last_tree_call.owner]),
                         last_tree_call.id)
          /\ \A vm \in VMs \ {last_tree_call.owner} :
                snapshot[vm] = last_tree_call.before[vm]

\* a snapshot with a child and a grandchild was deleted and both remain
C13_Witness ==
    /\ RemoveDone
    /\ last_tree_call.op = "delete"
    /\ last_tree_call.had_children
    /\ last_tree_call.id = 1
    /\ FlatIds(last_tree_call.before["vm1"]) = <<1, 2, 3>>
    /\ FlatIds(snapshot["vm1"]) = <<2, 3>>

\* ---------------------------------------------------------------------------
\* OVF import: claims
\* ---------------------------------------------------------------------------

\* how often a remote call was made by the running import
Count(call) == Cardinality({i \in 1..Len(calls) : calls[i] = call})

\* the poll gave up: the last permitted read did not see ready
LeaseNeverReady ==
    /\ import_pc = "failed"
    /\ lease_reads > 0
    /\ lease_state # "ready"
    /\ Count("PullFromUrls") = 0

\* C14: the lease state is read at most 6 times; PullFromUrls is invoked only
\* after a read that saw ready; a lease that is not ready in any of the 6
\* reads fails the import with neither PullFromUrls nor Complete invoked.
C14_PullOnlyOnReadyLease ==
    /\ lease_reads <= 6
    /\ Count("PullFromUrls") > 0 => lease_state = "ready"
    /\ import_pc \in {"pull", "complete", "done"} => lease_state = "ready"
    /\ (import_pc = "poll" /\ lease_reads > 0) => lease_state # "ready"
    /\ LeaseNeverReady =>
          /\ lease_reads = 6
          /\ import_outcome \in {"RetryError", "SystemExit"}
          /\ Count("Complete") = 0
    /\ (lease_reads = 6 /\ lease_state # "ready") =>
          /\ import_pc = "failed"
          /\ Count("PullFromUrls") = 0
          /\ Count("Complete") = 0

\* six reads, the lease went to error, the import failed without a pull
C14_Witness ==
    /\ LeaseNeverReady
    /\ lease_reads = 6
    /\ lease_state = "error"
    /\ import_outcome = "RetryError"
    /\ calls = <<"requests.get", "CreateImportSpec", "ImportVApp">>

\* the import has returned or raised
ImportEnded == import_pc \in {"done", "failed"}

\* C15: Complete is called if and only if the pull task finished
\* successfully: an import that ended after a successful pull has called
\* Complete, and Complete is never called after a failed pull or without one.
C15_CompleteIffPullSucceeded ==
    /\ Count("Complete") > 0 => pull_task = "success"
    /\ (ImportEnded /\ pull_task = "success") => Count("Complete") = 1
    /\ pull_task = "success" => import_pc \in {"complete", "done", "failed"}
    /\ (import_pc = "complete") => (pull_task = "success" /\ Count("Complete") = 0)

C15_Witness ==
    /\ import_pc = "done"
    /\ import_engine = "VMManager.import_ovf"
    /\ pull_task = "success"
    /\ calls[Len(calls)] = "Complete"
    /\ import_outcome = "ok"

\* the remote calls of an import in their fixed order
Pipeline ==
    <<"requests.get", "CreateImportSpec", "ImportVApp", "PullFromUrls", "Complete">>

\* the phase a position stands for: the calls made when an import is there
CallsMadeAt(position) ==
    CASE position \in {"idle"} -> 0
      [] position = "fetch" -> 0
      [] position = "negotiate" -> 1
      [] position = "lease" -> 2
      [] position \in {"poll", "pull"} -> 3
      [] position = "complete" -> 4
      [] position = "done" -> 5
      [] OTHER -> Len(calls)

C17_BatchKeysDecreaseFromMinusOne ==
    /\ \A i \in 1..Len(devices) : devices[i].key = -i
    /\ \A i, j \in 1..Len(devices) :
          /\ devices[i].key < 0
          /\ i < j => devices[j].key < devices[i].key
    /\ \A i \in 1..Len(devices) :
          devices[i].type = "disk" =>
              \E j \in 1..(i - 1) : /\ devices[j].type = "scsi"
                                    /\ devices[j].key = devices[i].controllerKey
    /\ (last_add.engine = "CreateVMSpec" /\ last_add.added) =>
          \E i \in 1..Len(devices) :
              /\ devices[i].type = "disk"
              /\ \A j \in (i + 1)..Len(devices) : devices[j].type # "disk"
              /\ devices[i].controllerKey = last_add.controller_key

\* controller, disk, controller, disk on the first controller
C17_Witness ==
    /\ Len(devices) = 4
    /\ [i \in 1..4 |-> devices[i].type] = <<"scsi", "disk", "scsi", "disk">>
    /\ [i \in 1..4 |-> devices[i].key] = <<-1, -2, -3, -4>>
    /\ devices[4].controllerKey = -1
    /\ last_add.controller_key = -1

\* the bus numbers of the controllers of the batch, in order of addition
BatchBusNumbers ==
    LET added == existing_scsi_controllers(devices)
    IN  [i \in 1..Len(added) |-> added[i].busNumber]

\* C18 as stated: the bus number ScsiControllerManager.add assigns is not
\* the bus number of a SCSI controller that is on the VM, whatever additions
\* and removals came before; the bus numbers assigned within one CreateVMSpec
\* batch are pairwise distinct.
C18_AssignedBusIsUnused ==
    /\ last_device_call.op = "ScsiControllerManager.add" =>
          last_device_call.bus \notin last_device_call.buses_before
    /\ \A i, j \in 1..Len(BatchBusNumbers) :
          i # j => BatchBusNumbers[i] # BatchBusNumbers[j]

\* the last call added a controller to a VM that had no SCSI controller
FirstControllerAdded ==
    /\ last_device_call.op \in {"ScsiControllerManager.add",
                                "VMManager.add_scsi_controller"}
    /\ ~last_device_call.had_scsi

\* C19 as stated: a SCSI controller added to a VM that has no SCSI
\* controller, or as the first of a batch, is assigned bus number 0.
C19_FirstControllerGetsBusZero ==
    /\ FirstControllerAdded => last_device_call.bus = 0
    /\ Len(BatchBusNumbers) > 0 => BatchBusNumbers[1] = 0

\* What holds of every such addition: the controller is assigned bus number
\* 1, by ScsiControllerManager.add, by VMManager.add_scsi_controller and as
\* the first controller of a CreateVMSpec batch.
FirstControllerGetsBusOne ==
    /\ FirstControllerAdded => last_device_call.bus = 1
    /\ Len(BatchBusNumbers) > 0 => BatchBusNumbers[1] = 1

\* C20 as stated: VM.add_disk on a VM that has no SCSI controller reports
\* the 'no controller found' failure, submits no reconfiguration task and
\* leaves the device list unchanged.
C20_NoControllerIsReported ==
    (last_device_call.op = "VM.add_disk" /\ ~last_device_call.had_scsi) =>
        /\ last_device_call.outcome = "Disk SCSI controller not found!"
        /\ last_device_call.reconfigures = 0
        /\ hw_device = last_device_call.before

\* ---------------------------------------------------------------------------
\* Disk removal by label: claims
\* ---------------------------------------------------------------------------

RemoveRan == last_device_call.op = "VM.remove_disk"

\* the keys of the disks that carried the wanted label when the call began
CarriersBefore ==
    {d.key : d \in {e \in Elements(last_device_call.before) :
                      /\ e.type = "disk"
                      /\ last_device_call.labels_before[e.key]
                           = label_of("Hard disk ", last_device_call.bus)}}

KeysOf(device_list) == {d.key : d \in Elements(device_list)}

\* C21: VM.remove_disk(n) with no disk labelled "Hard disk n" raises the
\* not-found error, submits no reconfiguration and leaves the devices alone;
\* with such a disk it submits exactly one removal naming a disk with that
\* label, and every other device stays
C21_RemoveDiskByLabel ==
    RemoveRan =>
        IF CarriersBefore = {}
        THEN /\ last_device_call.outcome = "RuntimeError"
             /\ last_device_call.reconfigures = 0
             /\ hw_device = last_device_call.before
        ELSE /\ last_device_call.reconfigures = 1
             /\ last_device_call.device \in CarriersBefore
             /\ last_device_call.outcome \in {"ok", "TaskError"}
             /\ KeysOf(hw_device) =
                  IF last_device_call.outcome = "ok"
                  THEN KeysOf(last_device_call.before)
                          \ {last_device_call.device}
                  ELSE KeysOf(last_device_call.before)

\* a removal that found its disk among several and took it away
C21_Witness ==
    /\ RemoveRan
    /\ last_device_call.outcome = "ok"
    /\ CarriersBefore # {}
    /\ \E d \in Elements(hw_device) : d.type = "disk"

\* ---------------------------------------------------------------------------
\* Duplicate SCSI controller: claims
\* ---------------------------------------------------------------------------

ControllerAddRan ==
    last_device_call.op \in {"ScsiControllerManager.add",
                             "VMManager.add_scsi_controller",
                             "cli.disk.add_scsi_controller",
                             "cli.controller.add_scsi_controller"}

\* C22: a SCSI controller add on a VM that already has a SCSI controller
\* submits no Reconfigure and leaves the VM's device list as it was
C22_DuplicateControllerRejected ==
    (ControllerAddRan /\ last_device_call.had_scsi) =>
        /\ last_device_call.reconfigures = 0
        /\ hw_device = last_device_call.before

\* the two CLI commands end in AttributeError before any remote call,
\* whatever controllers the VM has
CliControllerAddNeverSubmits ==
    last_device_call.op \in {"cli.disk.add_scsi_controller",
                             "cli.controller.add_scsi_controller"} =>
        /\ last_device_call.outcome = "AttributeError"
        /\ last_device_call.reconfigures = 0

\* ---------------------------------------------------------------------------
\* One Reconfigure per call: claims
\* ---------------------------------------------------------------------------

Setters == {"number", "cores_per_socket", "size_in_mb"}

\* C23: a CPU count, cores-per-socket or memory edit, a disk add, a disk
\* remove and a SCSI controller add each submit one Reconfigure and no more;
\* the only calls that submit none are those that raise before the
\* submission (the edit of a VM that is not powered off, the disk add whose
\* unit computation raises).  A failed task is raised to the caller as it
\* is: the call has still submitted one Reconfigure and has changed nothing.
C23_OneReconfigurePerCall ==
    /\ last_edit.op \in Setters =>
          /\ last_edit.reconfigures =
                (IF last_edit.outcome = "InvalidStateError" THEN 0 ELSE 1)
          /\ last_edit.outcome \in {"InvalidStateError", "ok", "TaskError"}
          /\ last_edit.outcome = "InvalidStateError" <=>
                not_powered_off(last_edit.power)
          /\ last_edit.outcome = "TaskError" => hardware = last_edit.before
    /\ last_add.engine \in {"DiskManager", "remove"} =>
          /\ last_add.reconfigures =
                (IF last_add.outcome = "raised" THEN 0 ELSE 1)
          /\ last_add.outcome \in {"raised", "ok", "TaskError"}
          /\ last_add.outcome = "TaskError" => ~last_add.added
    /\ last_device_call.op = "ScsiControllerManager.add" =>
          /\ last_device_call.reconfigures = 1
          /\ last_device_call.outcome \in {"ok", "TaskError"}
          /\ last_device_call.outcome = "TaskError" =>
                {c.key : c \in Controllers(hw_device)} =
                {c.key : c \in Controllers(last_device_call.before)}

\* an edit, a disk call and a controller add whose tasks all failed, each
\* after one submission
C23_Witness ==
    /\ last_edit.op \in Setters
    /\ last_edit.outcome = "TaskError"
    /\ last_edit.reconfigures = 1
    /\ last_add.engine = "DiskManager"
    /\ last_add.outcome = "TaskError"
    /\ last_add.reconfigures = 1
    /\ last_device_call.op = "ScsiControllerManager.add"
    /\ last_device_call.outcome = "TaskError"
    /\ last_device_call.reconfigures = 1

\* ---------------------------------------------------------------------------
\* Tasks are waited for: claims
\* ---------------------------------------------------------------------------

CreateEnded == last_create.engine # "none"

\* C24: a create call (VMManager.create, CreateVMSpec.create_vm) returns or
\* raises only after its CreateVm task has reached success or error, so the
\* task.info.result it returns is never read from a task that is still
\* running
C24_ReturnsAfterTaskEnded ==
    CreateEnded => last_create.task_at_return \in TaskEnded

\* VMManager.create keeps to it: it returns the VM of a finished task or
\* raises the task's error
VMManagerCreateWaits ==
    (CreateEnded /\ last_create.engine = "VMManager.create") =>
        /\ last_create.task_at_return \in TaskEnded
        /\ last_create.outcome = "returned" =>
              /\ last_create.task_at_return = "success"
              /\ last_create.result = last_create.name
        /\ last_create.outcome = "TaskError" =>
              last_create.task_at_return = "error"

\* CreateVMSpec.create_vm has returned VM(None) while the host then went on
\* to create the VM
CreateVmReturnedUnsetResult ==
    /\ last_create.engine = "CreateVMSpec.create_vm"
    /\ create_pc = "returned"
    /\ last_create.task_at_return = "running"
    /\ last_create.result = None
    /\ task = "success"

\* ---------------------------------------------------------------------------
\* Exit status after a handled exception: claims
\* ---------------------------------------------------------------------------

HandlerRan(command) == command.wrapper # "none" /\ command.raised # "none"

\* C25: when a function wrapped by handle_exceptions raises, whatever the
\* exception, the process ends with an exit status that is not zero
C25_RaisedExitsNonZero ==
    \A i \in 1..Len(exit_log) :
        HandlerRan(exit_log[i]) =>
            (exit_log[i].exited /\ exit_log[i].exit_status # 0)

\* what the handlers do: they print the message of the except clause and
\* end the process, with status 0
HandledExitsWithStatusZero ==
    \A i \in 1..Len(exit_log) :
        HandlerRan(exit_log[i]) =>
            /\ exit_log[i].exited
            /\ exit_log[i].message # "none"
            /\ exit_log[i].exit_status = 0

\* ---------------------------------------------------------------------------
\* The bounded loops end: claims
\* ---------------------------------------------------------------------------

PowerRunning == pc \in {"invoke", "wait"}

PowerEnded == pc \in {"done", "failed_invoke", "failed_wait"}

\* C26: a power call makes at most 12 invocation attempts and at most 60
\* confirmation reads and then has ended, in success or in a reported
\* failure; the lease poll makes at most 6 reads and then has ended; on a
\* process that keeps running, every started power call and every started
\* lease poll does end, whatever the host reports
C26_BoundedLoopsEnd ==
    /\ [](/\ attempt_number <= InvokeMaxAttempts
          /\ poll_reads <= PollMaxAttempts
          /\ lease_reads <= LeaseMaxAttempts)
    /\ PowerRunning ~> PowerEnded
    /\ (import_pc = "poll") ~> (import_pc \in {"pull", "failed"})

\* a power call that gave up after 60 reads of a host that never reported the
\* target
C26_Witness ==
    /\ pc = "failed_wait"
    /\ poll_reads = PollMaxAttempts
    /\ current_power_state # expected_state
    /\ ~state_changed

\* ---------------------------------------------------------------------------
\* Failed imports: claims
\* ---------------------------------------------------------------------------

\* the import ended in the descriptor fetch
FetchFailed ==
    /\ import_pc = "failed"
    /\ calls # <<>>
    /\ calls[Len(calls)] = "requests.get"

\* C27: an import whose descriptor fetch failed has made the fetch once and
\* has ended there: no CreateImportSpec, ImportVApp, PullFromUrls or Complete
C27_FailedFetchEndsImport ==
    FetchFailed =>
        /\ calls = <<"requests.get">>
        /\ Count("requests.get") = 1
        /\ Count("CreateImportSpec") = 0
        /\ Count("ImportVApp") = 0
        /\ Count("PullFromUrls") = 0
        /\ Count("Complete") = 0
        /\ import_outcome = "SystemExit"
        /\ lease_state = "none" /\ lease_reads = 0
        /\ file_items = <<>> /\ source_files = <<>> /\ pull_task = "none"

C27_Witness ==
    /\ FetchFailed
    /\ import_engine = "OvfImportSpec.create_vm"
    /\ import_outcome = "SystemExit"

\* the pull task failed
PullFailed == import_pc = "failed" /\ pull_task = "error"

\* C28: an import that failed with the lease acquired, because the lease was
\* never ready or because the pull task failed, has made no call after the
\* one that failed: its calls end with ImportVApp (lease never ready) or with
\* PullFromUrls (pull failed); there is no abort of the lease, no Complete
\* and no removal of the import spec or of the VM
C28_NoRollbackAfterLease ==
    /\ LeaseNeverReady =>
          calls = <<"requests.get", "CreateImportSpec", "ImportVApp">>
    /\ PullFailed =>
          calls = <<"requests.get", "CreateImportSpec", "ImportVApp",
                    "PullFromUrls">>
    /\ (LeaseNeverReady \/ PullFailed) =>
          \A i \in 1..Len(calls) :
              calls[i] \notin {"Complete", "HttpNfcLeaseAbort", "Destroy",
                               "UnregisterVM"}

C28_Witness ==
    /\ PullFailed
    /\ lease_state = "ready"
    /\ import_outcome = "TaskError"
    /\ calls[Len(calls)] = "PullFromUrls"

\* ---------------------------------------------------------------------------
\* Find by identity: claims
\* ---------------------------------------------------------------------------

\* the positions of the pre-order at which the snapshot stands
MatchesIn(flat, id) == {i \in 1..Len(flat) : flat[i].snapshot = id}

\* the first of them
FirstMatch(flat, id) ==
    flat[CHOOSE i \in MatchesIn(flat, id) : \A j \in MatchesIn(flat, id) : i <= j]

\* C29: for every forest of a VM and every snapshot identifier,
\* find_snapshot_tree returns the first node of the pre-order of
\* flatten_snapshot_tree that carries the identifier, at whatever depth and
\* in whichever root tree it stands, and returns None exactly when no node
\* carries it
C29_FindReturnsFirstPreOrderMatch ==
    \A vm \in VMs : \A id \in 1..(MaxSnapshots + 1) :
        LET roots == snapshot[vm].rootSnapshotList
            flat == flatten_snapshot_tree(roots)
            found == find_snapshot_tree(roots, id)
        IN  /\ (found = NoneTree) <=> (MatchesIn(flat, id) = {})
            /\ MatchesIn(flat, id) # {} =>
                  /\ found = FirstMatch(flat, id)
                  /\ found.snapshot = id

\* a forest of two root trees in which a node below the second root is found
C29_Witness ==
    \E vm \in VMs : \E id \in 1..MaxSnapshots :
        LET roots == snapshot[vm].rootSnapshotList
        IN  /\ Len(roots) >= 2
            /\ roots[1].snapshot # id
            /\ roots[2].snapshot # id
            /\ find_snapshot_tree(roots, id) # NoneTree
            /\ find_snapshot_tree(<<roots[1]>>, id) = NoneTree
            /\ find_snapshot_tree(roots, id).snapshot = id

\* ---------------------------------------------------------------------------
\* Resource query layer: claims
\* ---------------------------------------------------------------------------

\* a query with a predicate, or a list with none, has been answered
QueryRan == last_query.op \in {"list", "get"} /\ last_query.raised = "none"

\* the sequences that keep some positions of a collection, in its order
SubSeqAt(all_items, positions) ==
    LET rank(i) == Cardinality({j \in positions : j <= i})
    IN  [k \in 1..Cardinality(positions) |->
            all_items[CHOOSE i \in positions : rank(i) = k]]

\* the positions of a collection whose items the predicate accepts
Satisfying(all_items, condition) ==
    {i \in 1..Len(all_items) : all_items[i][condition.field] \in condition.accepts}

\* what list(condition) is to return for a collection
ListExpected(all_items, condition) ==
    IF condition = NoCondition THEN all_items
    ELSE SubSeqAt(all_items, Satisfying(all_items, condition))

\* C30: list(condition) returns exactly the items of the collection that
\* satisfy the predicate, in collection order, and every item when no
\* predicate is given; get(condition) returns the first element of
\* list(condition), or None when no item satisfies the predicate; neither
\* operation modifies the collection
C30_ListAndGet ==
    /\ last_query.op = "list" =>
          /\ last_query.listed = ListExpected(last_query.before, last_query.condition)
          /\ last_query.after = last_query.before
    /\ (last_query.op = "get" /\ last_query.condition # NoCondition) =>
          /\ last_query.raised = "none"
          /\ last_query.got =
                IF ListExpected(last_query.before, last_query.condition) = <<>>
                THEN NoItem
                ELSE Head(ListExpected(last_query.before, last_query.condition))
          /\ last_query.after = last_query.before

\* a get on a collection in which two different items satisfy the predicate
\* and the first item does not
C30_Witness ==
    /\ last_query.op = "get"
    /\ last_query.condition # NoCondition
    /\ Len(last_query.before) = MaxItems
    /\ 1 \notin Satisfying(last_query.before, last_query.condition)
    /\ Cardinality(Satisfying(last_query.before, last_query.condition)) = 2
    /\ last_query.before[2] # last_query.before[3]
    /\ last_query.got = last_query.before[2]

\* ---------------------------------------------------------------------------
\* Retried power invocation: claims
\* ---------------------------------------------------------------------------

\* a step that is one attempt of the invocation phase
InvokeAttempt == pc = "invoke" /\ attempt_number' = attempt_number + 1

\* C31: every attempt of a power invocation reads the power state first: an
\* attempt that finds the target state, earlier raised attempts or not,
\* submits nothing and ends the invocation phase with success; any other
\* attempt submits the operation anew, so that while the phase runs every
\* attempt made so far has raised on a submission of its own
C31_RetryReadsStateFirst ==
    [][InvokeAttempt =>
          /\ submitted = attempt_number
          /\ raised = attempt_number
          /\ IF power_state = expected_state
             THEN /\ submitted' = submitted
                  /\ raised' = raised
                  /\ pc' = "wait"
             ELSE /\ submitted' = submitted + 1
                  /\ pc' \in {"invoke", "wait", "failed_invoke"}]_vars

\* an attempt found the target state after earlier attempts had raised
C31_Witness ==
    /\ pc = "wait"
    /\ raised >= 2
    /\ submitted = raised
    /\ attempt_number = raised + 1
    /\ power_state = expected_state

\* ---------------------------------------------------------------------------
\* Capacity of a controller: claims
\* ---------------------------------------------------------------------------

\* a disk add asked the allocation for a unit
AllocationRan == last_add.engine \in {"DiskManager", "CreateVMSpec"}

\* the disks that were attached to the controller when the add began, while
\* every one of them carries a unit number of its own
AttachedBefore == Cardinality(last_add.used_before)

\* C33: the allocation reports no free unit (None) exactly when the number
\* of devices attached to the controller has reached the maximum device
\* count of the controller type; the controller's own SCSI target number
\* does not count towards the maximum
C33_NoneExactlyAtMaximum ==
    (AllocationRan /\ None \notin last_add.used_before) =>
        ((last_add.unit = None) <=> (AttachedBefore >= max_devices))

\* what the allocation does: None exactly when the used units it collected,
\* the controller's own unit among them, number devices.max or more
NoneWhenUsedUnitsReachMaximum ==
    AllocationRan =>
        ((last_add.unit = None) <=> (last_add.len_before >= max_devices))

\* None was reported for a controller with one attached device fewer than
\* the maximum
NoneBelowMaximum ==
    /\ AllocationRan
    /\ None \notin last_add.used_before
    /\ last_add.unit = None
    /\ AttachedBefore = max_devices - 1
    /\ last_add.len_before = max_devices

\* ---------------------------------------------------------------------------
\* DiskManager.add among several clients: claims
\* ---------------------------------------------------------------------------

\* the clients whose last call of DiskManager.add returned a disk
Returned == {cl \in Clients : add_result[cl].outcome = "ok"}

\* C32: DiskManager.add returns the disk it just created: a disk whose key
\* was not listed before the call and whose controller key and unit number
\* are those of the change-set, also when another client adds or removes
\* disks of the VM between the first listing and the listing after the task
C32_AddReturnsItsOwnDisk ==
    \A cl \in Returned :
        /\ add_result[cl].key \notin existing_disks[cl]
        /\ add_result[cl].key = add_result[cl].committed
        /\ add_result[cl].controllerKey = new_disk_spec[cl].controllerKey
        /\ add_result[cl].unitNumber = new_disk_spec[cl].unitNumber

\* what the code does: with no change of the devices by anyone else between
\* the first listing and the return, the returned disk is the committed one,
\* on the controller of the change-set, at its unit when it names one
AloneReturnsOwnDisk ==
    \A cl \in Returned :
        ~interfered[cl] =>
            /\ add_result[cl].key \notin existing_disks[cl]
            /\ add_result[cl].key = add_result[cl].committed
            /\ add_result[cl].controllerKey = new_disk_spec[cl].controllerKey
            /\ new_disk_spec[cl].unitNumber # None =>
                  add_result[cl].unitNumber = new_disk_spec[cl].unitNumber

\* a call returned a disk that another client created, at another unit than
\* the one of its own change-set
ReturnedAnotherClientsDisk ==
    \E cl \in Returned :
        /\ interfered[cl]
        /\ new_disk_spec[cl].unitNumber # None
        /\ add_result[cl].key # add_result[cl].committed
        /\ add_result[cl].unitNumber # new_disk_spec[cl].unitNumber

\* a call committed its disk and then raised IndexError on new_disks[0]
AddRaisedIndexError ==
    \E cl \in Clients :
        /\ add_result[cl].outcome = "IndexError"
        /\ add_result[cl].committed # None

\* the clients whose change-set has just been committed by the host
Committed == {cl \in Clients : add_pc[cl] = "relist"}

\* C38: DiskManager.add does not look at the devices again between reading
\* them and submitting: the change-set that is committed carries the unit
\* computed at the read, whatever happened to the devices since, so two
\* clients can hold the same next free unit before either commit lands; that
\* no two disks of the controller ever share a unit is the host's doing,
\* which commits one of two such change-sets and fails the other
C38_NoRevalidationBeforeSubmit ==
    /\ \A cl \in Committed :
          new_disk_spec[cl].unitNumber # None =>
              /\ add_result[cl].unitNumber = new_disk_spec[cl].unitNumber
              /\ add_result[cl].committed = host_disk_key(new_disk_spec[cl].unitNumber)
    /\ \A c \in Controllers(hw_device) :
          \A d1, d2 \in DisksOn(hw_device, c.key) :
              d1.unitNumber = d2.unitNumber => d1 = d2

\* both clients have computed the same unit of the same controller and
\* neither has submitted yet
C38_Witness ==
    /\ \A cl \in Clients : add_pc[cl] = "reconfigure"
    /\ new_disk_spec["client1"] = new_disk_spec["client2"]
    /\ new_disk_spec["client1"].unitNumber \in 0..MaxDevices
    /\ \A cl \in Clients : interfered[cl] = FALSE

\* ---------------------------------------------------------------------------
\* Return of a successful import: claims
\* ---------------------------------------------------------------------------

\* the import has ended and every phase of it succeeded: the pull task ended
\* in success and Complete, the last call, raised nothing
EveryPhaseSucceeded ==
    /\ import_pc \in {"done", "failed"}
    /\ pull_task = "success"
    /\ calls # <<>>
    /\ calls[Len(calls)] = "Complete"
    /\ import_outcome \notin {"Fault", "SystemExit"}

\* C34: when every phase of an import succeeds, the import function returns
\* a VM: OvfImportSpec.create_vm does not raise after the lease has been
\* completed, and VMManager.import_ovf returns its lookup by name
C34_SuccessfulImportReturnsVM ==
    EveryPhaseSucceeded =>
        /\ import_pc = "done"
        /\ import_outcome = "ok"

\* what the code does: import_ovf returns after a successful Complete, and
\* create_vm raises AttributeError there
ImportOvfReturnsCreateVmRaises ==
    EveryPhaseSucceeded =>
        IF import_engine = "VMManager.import_ovf"
        THEN import_pc = "done" /\ import_outcome = "ok"
        ELSE import_pc = "failed" /\ import_outcome = "AttributeError"

\* create_vm raised after the lease was completed
CreateVmRaisedAfterComplete ==
    /\ EveryPhaseSucceeded
    /\ import_engine = "OvfImportSpec.create_vm"
    /\ import_outcome = "AttributeError"

\* ---------------------------------------------------------------------------
\* VM deletion: claims
\* ---------------------------------------------------------------------------

\* the calls of the running delete, as a set
DeleteCalled == {delete_calls[i] : i \in 1..Len(delete_calls)}

\* C35: a delete submits Destroy only when it read the VM as poweredOff or
\* when the power-off task it issued has ended in success; it submits no
\* power-off for a VM it read as poweredOff, and once its power-off task has
\* failed it never submits Destroy
C35_DestroyOnlyWhenPoweredOff ==
    /\ "Destroy" \in DeleteCalled =>
          \/ delete_read = "poweredOff"
          \/ delete_calls[1] = "PowerOffVM_Task" /\ power_off_task = "success"
    /\ delete_read = "poweredOff" => "PowerOffVM_Task" \notin DeleteCalled
    /\ power_off_task = "error" =>
          /\ "Destroy" \notin DeleteCalled
          /\ delete_pc = "raised"
    /\ Len(delete_calls) <= 2

\* a delete of a VM that was not poweredOff powered it off and destroyed it
C35_Witness ==
    /\ delete_pc = "done"
    /\ delete_read \in {"poweredOn", "suspended"}
    /\ delete_calls = <<"PowerOffVM_Task", "Destroy">>
    /\ ~vm_registered

\* ---------------------------------------------------------------------------
\* VM.add_disk of vtools.py on one controller: claims
\* ---------------------------------------------------------------------------

\* the last call was VM.add_disk on a VM with one SCSI controller
LegacyAddRan ==
    /\ last_device_call.op = "VM.add_disk"
    /\ Cardinality(Controllers(last_device_call.before)) = 1

\* the unit number the call computed
LegacyUnit == add_disk_scan(last_device_call.before, 0, None).unit_number

\* the units its controller's disks held before the call
LegacyOccupied ==
    {d.unitNumber : d \in {x \in Elements(last_device_call.before) : x.type = "disk"}}

\* C36: over any sequence of additions and removals on a VM with one SCSI
\* controller, VM.add_disk never submits a unit number that another device
\* of the controller occupies and never the controller's reserved unit 7,
\* and it submits no task once the computed unit number has reached 16
C36_LegacyAddAvoidsUsedAndReserved ==
    LegacyAddRan =>
        /\ last_device_call.reconfigures = 1 =>
              /\ LegacyUnit \notin LegacyOccupied
              /\ LegacyUnit # ScsiCtlrUnitNumber
        /\ LegacyUnit >= TooManyDisks => last_device_call.reconfigures = 0

\* what the code does: the unit is one more than the unit of the last disk
\* of the device list, 1 for a controller with no disk, never an occupied one
LegacyAddTakesUnitAfterLastDisk ==
    LegacyAddRan =>
        /\ LegacyUnit \notin LegacyOccupied
        /\ LegacyUnit = IF LegacyOccupied = {} THEN 1
                        ELSE 1 + CHOOSE u \in LegacyOccupied : \A v \in LegacyOccupied : v <= u
        /\ last_device_call.reconfigures = IF LegacyUnit >= TooManyDisks THEN 0 ELSE 1

\* a change-set with the reserved unit 7 was submitted, and the host failed it
LegacyAddSubmittedReservedUnit ==
    /\ LegacyAddRan
    /\ LegacyUnit = ScsiCtlrUnitNumber
    /\ last_device_call.reconfigures = 1
    /\ last_device_call.outcome = "TaskError"

\* ---------------------------------------------------------------------------
\* Power commands of cli.py: claims
\* ---------------------------------------------------------------------------

\* the commands run so far
CliRan == {cli_log[i] : i \in 1..Len(cli_log)}

\* C37: the power commands of cli.py act on the state they read as their
\* messages say: power_on submits PowerOn when the VM is not poweredOn, and
\* prints "already powered on", submitting nothing, only when it is
\* poweredOn; power_off submits PowerOff only when the VM is not poweredOff;
\* suspend submits Suspend only when the VM is poweredOn
C37_CliPowerActsAsItsMessagesSay ==
    \A c \in CliRan :
        /\ (c.command = "power_on" /\ c.read # "poweredOn") => c.submitted = "PowerOn"
        /\ (c.command = "power_on" /\ c.message = "is already powered on") =>
              c.read = "poweredOn" /\ c.submitted = "none"
        /\ (c.command = "power_off" /\ c.submitted = "PowerOff") => c.read # "poweredOff"
        /\ (c.command = "suspend" /\ c.submitted = "Suspend") => c.read = "poweredOn"

\* what the code does: power_on has its test the wrong way round, it prints
\* "already powered on" for every VM that is not poweredOn and submits
\* PowerOn, which the host fails, for a VM that is; power_off and suspend do
\* as the claim says
PowerOnTestInverted ==
    \A c \in CliRan :
        /\ c.command = "power_on" =>
              IF c.read # "poweredOn"
              THEN c.submitted = "none" /\ c.message = "is already powered on"
              ELSE c.submitted = "PowerOn" /\ c.outcome = "TaskError"
        /\ c.command = "power_off" =>
              (c.submitted = "PowerOff" <=> c.read # "poweredOff")
        /\ c.command = "suspend" =>
              (c.submitted = "Suspend" <=> c.read = "poweredOn")

\* power_on told a poweredOff VM that it is already powered on
PowerOnRefusedPoweredOffVm ==
    \E c \in CliRan :
        /\ c.command = "power_on"
        /\ c.read = "poweredOff"
        /\ c.submitted = "none"
        /\ c.message = "is already powered on"

\* ---------------------------------------------------------------------------
\* create_vm and the spec's own devices: claims
\* ---------------------------------------------------------------------------

\* the calls of create_vm made so far
CreateVmCalls == 1..Len(create_vm_log)

\* a change-set with the file names that create_vm fills in left out
WithoutFilled(deviceChange, datastore_name) ==
    [i \in 1..Len(deviceChange) |->
        IF deviceChange[i].fileName = "[" \o datastore_name \o "]"
        THEN [deviceChange[i] EXCEPT !.fileName = "unset"]
        ELSE IF deviceChange[i].fileName \in {"", " "}
        THEN [deviceChange[i] EXCEPT !.fileName = "unset"]
        ELSE deviceChange[i]]

\* C39: create_vm works on a deep copy of the spec's devices: filling in the
\* datastore path and submitting CreateVm leaves the spec's own devices, its
\* key counter and its bus counter as they were, so two calls of create_vm
\* on the same spec submit equal device change-sets: equal in everything but
\* the datastore path filled in, and equal in that too for the same datastore
C39_CreateVmLeavesSpecUnchanged ==
    /\ \A i \in CreateVmCalls :
          /\ create_vm_log[i].devices_after = create_vm_log[i].devices_before
          /\ create_vm_log[i].key_after = create_vm_log[i].key_before
          /\ create_vm_log[i].bus_after = create_vm_log[i].bus_before
    /\ \A i, j \in CreateVmCalls :
          create_vm_log[i].devices_before = create_vm_log[j].devices_before =>
              /\ WithoutFilled(create_vm_log[i].deviceChange, create_vm_log[i].datastore)
                    = WithoutFilled(create_vm_log[j].deviceChange, create_vm_log[j].datastore)
              /\ create_vm_log[i].datastore = create_vm_log[j].datastore =>
                    create_vm_log[i].deviceChange = create_vm_log[j].deviceChange

\* create_vm was called twice on a spec with a disk whose file name is unset,
\* with nothing added in between, and the spec still has the name unset
C39_Witness ==
    /\ Len(create_vm_log) = 2
    /\ create_vm_log[1].devices_before = create_vm_log[2].devices_before
    /\ create_vm_log[1].datastore = create_vm_log[2].datastore
    /\ \E r \in 1..Len(device_refs) :
          /\ heap[device_refs[r]].file_backing
          /\ heap[device_refs[r]].fileName = ""
          /\ create_vm_log[2].deviceChange[r].fileName = "[" \o create_vm_log[2].datastore \o "]"

====
